---------------------------- MODULE Spec2Model ----------------------------
(***************************************************************************)
(* Model of the auth package of polymarket-sdk-go: the HMAC request signer *)
(* (src/auth/hmac.go, first file), the wallet helpers (src/auth/hmac.go,   *)
(* second file) and the EIP-712 signer (src/unnamed/part_000).             *)
(*                                                                         *)
(* Go strings and byte slices are sequences of byte values 0..255.  The    *)
(* library primitives the package calls (keccak256, HMAC-SHA256, secp256k1 *)
(* signing and recovery) are replaced by small stand-ins that keep the     *)
(* interface the package relies on: fixed output widths, determinism, and  *)
(* sensitivity to every input byte.  Everything the package itself does    *)
(* (concatenation, formatting, base64 and hex conversion, the recovery     *)
(* byte arithmetic, error returns) is computed as the code computes it.    *)
(***************************************************************************)
EXTENDS Integers, Sequences, FiniteSets, TLC

VARIABLES
    hm,       \* the last call into the HMAC request signer, with its results
    wallet,   \* the Wallet the caller holds, if it has made one
    signed,   \* the last signing call (EIP-712 or wallet), with its results
    rec,      \* the last recovery / verification call, with its results
    call,     \* the last call of a key, wallet or domain helper, with its results
    sdk,      \* the DataSDK call in progress: caller, goroutines, channels, results
    ws        \* the last call of ParseMarketChannelMessage, with its results

vars == <<hm, wallet, signed, rec, call, sdk, ws>>
sigVars == <<wallet, signed, rec, call, sdk, ws>>
authVars == <<hm, wallet, signed, rec, call>>

---------------------------------------------------------------------------
(* Bytes and text *)

Byte == 0..255

\* "0x"
Prefix0x == <<48, 120>>

\* '=' , '+' , '/' , '-' , '_' , '\n' , '\r'
ChEq == 61
ChPlus == 43
ChSlash == 47
ChMinus == 45
ChUnderscore == 95
ChLF == 10
ChCR == 13

Map(f(_), s) == [i \in 1..Len(s) |-> f(s[i])]

\* s with the byte at position p replaced by c
ReplaceAt(s, p, c) == [i \in 1..Len(s) |-> IF i = p THEN c ELSE s[i]]

\* strings.ReplaceAll for single-byte patterns
ReplaceAll(s, old, new) == [i \in 1..Len(s) |-> IF s[i] = old THEN new ELSE s[i]]

\* fmt.Sprintf("%d", n): the digits of a non-negative integer
RECURSIVE Digits(_)
Digits(n) == IF n < 10 THEN <<48 + n>> ELSE Append(Digits(n \div 10), 48 + (n % 10))

\* fmt.Sprintf("%d", n)
FormatInt(n) == IF n < 0 THEN <<ChMinus>> \o Digits(-n) ELSE Digits(n)

---------------------------------------------------------------------------
(* Library stand-ins: hashing *)

HashLen == 32

\* the contribution of the bytes of data that fall into lane j (j, j+32, ...)
RECURSIVE LaneSum(_, _, _)
LaneSum(data, j, m) ==
    IF j + HashLen * m > Len(data) THEN 0
    ELSE (2 * m + 1) * (data[j + HashLen * m] + 1) + LaneSum(data, j, m + 1)

\* A 32-byte digest of data.  Replacing any one byte of data changes the
\* digest (each byte enters its lane through an odd multiplier, a bijection
\* modulo 256), and so does a change of length.
ToyHash(data, salt) ==
    [j \in 1..HashLen |->
        ((salt + 13 * j + 31 * Len(data) + LaneSum(data, j, 0)) * 167 + 89) % 256]

\* crypto.Keccak256Hash
Keccak256Hash(data) == ToyHash(data, 0)

\* sha256.Sum256
Sha256(data) == ToyHash(data, 57)

\* the block size of SHA-256, in bytes
BlockSize == 64

\* The key as HMAC uses it: a key longer than the block is hashed first, and
\* the result is padded with zero bytes to the block size.  Two keys that
\* differ only in trailing zero bytes are the same HMAC key.
KeyBlock(key) ==
    LET k == IF Len(key) > BlockSize THEN Sha256(key) ELSE key
    IN  [i \in 1..BlockSize |-> IF i <= Len(k) THEN k[i] ELSE 0]

\* hmac.New(sha256.New, key); h.Write(message); h.Sum(nil)
HmacSha256(key, message) == ToyHash(KeyBlock(key) \o message, 101)

\* hmac.Equal: constant-time comparison, true iff same length and bytes
HmacEqual(a, b) == Len(a) = Len(b) /\ \A i \in 1..Len(a) : a[i] = b[i]

---------------------------------------------------------------------------
(* encoding/base64 *)

\* "ABC...XYZabc...xyz0123456789+/"
StdAlphabet ==
    <<65, 66, 67, 68, 69, 70, 71, 72, 73, 74, 75, 76, 77, 78, 79, 80, 81, 82,
      83, 84, 85, 86, 87, 88, 89, 90, 97, 98, 99, 100, 101, 102, 103, 104,
      105, 106, 107, 108, 109, 110, 111, 112, 113, 114, 115, 116, 117, 118,
      119, 120, 121, 122, 48, 49, 50, 51, 52, 53, 54, 55, 56, 57, 43, 47>>

\* the URL-safe alphabet: '-' and '_' for '+' and '/'
URLAlphabet == ReplaceAll(ReplaceAll(StdAlphabet, ChPlus, ChMinus), ChSlash, ChUnderscore)

\* the 6-bit value of c in the alphabet, -1 when c is not in it
IndexOf(alphabet, c) ==
    IF \E i \in 1..64 : alphabet[i] = c
    THEN (CHOOSE i \in 1..64 : alphabet[i] = c) - 1
    ELSE -1

\* Encoding.EncodeToString, with padding
RECURSIVE EncodeToString(_, _)
EncodeToString(alphabet, src) ==
    IF Len(src) = 0 THEN <<>>
    ELSE IF Len(src) = 1 THEN
        <<alphabet[(src[1] \div 4) + 1], alphabet[((src[1] % 4) * 16) + 1], ChEq, ChEq>>
    ELSE IF Len(src) = 2 THEN
        <<alphabet[(src[1] \div 4) + 1],
          alphabet[((src[1] % 4) * 16 + (src[2] \div 16)) + 1],
          alphabet[((src[2] % 16) * 4) + 1], ChEq>>
    ELSE
        <<alphabet[(src[1] \div 4) + 1],
          alphabet[((src[1] % 4) * 16 + (src[2] \div 16)) + 1],
          alphabet[((src[2] % 16) * 4 + (src[3] \div 64)) + 1],
          alphabet[(src[3] % 64) + 1]>>
        \o EncodeToString(alphabet, SubSeq(src, 4, Len(src)))

CorruptInput == [ok |-> FALSE, bytes |-> <<>>]

\* The quanta of a padded, non-strict decoding: four characters give three
\* bytes; "xx==" and "xxx=" are allowed only as the last quantum and their
\* unused low bits are ignored.
RECURSIVE DecodeQuanta(_, _)
DecodeQuanta(alphabet, s) ==
    IF Len(s) = 0 THEN [ok |-> TRUE, bytes |-> <<>>]
    ELSE IF Len(s) < 4 THEN CorruptInput
    ELSE
        LET i1 == IndexOf(alphabet, s[1])
            i2 == IndexOf(alphabet, s[2])
            i3 == IndexOf(alphabet, s[3])
            i4 == IndexOf(alphabet, s[4])
            b1 == i1 * 4 + (i2 \div 16)
            b2 == (i2 % 16) * 16 + (i3 \div 4)
            b3 == (i3 % 4) * 64 + i4
        IN  IF i1 < 0 \/ i2 < 0 THEN CorruptInput
            ELSE IF s[3] = ChEq THEN
                IF s[4] = ChEq /\ Len(s) = 4
                THEN [ok |-> TRUE, bytes |-> <<b1>>]
                ELSE CorruptInput
            ELSE IF i3 < 0 THEN CorruptInput
            ELSE IF s[4] = ChEq THEN
                IF Len(s) = 4
                THEN [ok |-> TRUE, bytes |-> <<b1, b2>>]
                ELSE CorruptInput
            ELSE IF i4 < 0 THEN CorruptInput
            ELSE
                LET rest == DecodeQuanta(alphabet, SubSeq(s, 5, Len(s)))
                IN  IF rest.ok
                    THEN [ok |-> TRUE, bytes |-> <<b1, b2, b3>> \o rest.bytes]
                    ELSE CorruptInput

\* Encoding.DecodeString: '\r' and '\n' are skipped wherever they stand
DecodeString(alphabet, s) ==
    DecodeQuanta(alphabet, SelectSeq(s, LAMBDA c : c # ChLF /\ c # ChCR))

---------------------------------------------------------------------------
(* The HMAC request signer *)

\* body *string
NilBody == [isNil |-> TRUE, val |-> <<>>]
Ptr(s) == [isNil |-> FALSE, val |-> s]

\* (mutant) the method is left out of the message
HmacMessage_NoMethod(timestamp, method, requestPath, body) ==
    LET message == FormatInt(timestamp) \o requestPath
    IN  IF ~body.isNil THEN message \o body.val ELSE message

\* (mutant) the body is never appended
HmacMessage_BodyDropped(timestamp, method, requestPath, body) ==
    FormatInt(timestamp) \o method \o requestPath

\* the message of BuildPolyHmacSignature
HmacMessage(timestamp, method, requestPath, body) ==
    LET message == FormatInt(timestamp) \o method \o requestPath
    IN  IF ~body.isNil THEN message \o body.val ELSE message

\* (mutant) the decoding error is ignored: no fallback to the secret as-is
Base64Secret_NoFallback(secret) == DecodeString(URLAlphabet, secret).bytes

\* the key of BuildPolyHmacSignature: the decoded secret, or the secret as-is
Base64Secret(secret) ==
    LET decoded == DecodeString(URLAlphabet, secret)
    IN  IF ~decoded.ok THEN secret ELSE decoded.bytes

\* (mutant) only '/' is rewritten, '+' stays
SigUrlSafe_PlusKept(signature) ==
    LET sig == EncodeToString(StdAlphabet, signature)
    IN  ReplaceAll(sig, ChSlash, ChUnderscore)

\* standard base64, then '+' -> '-' and '/' -> '_' (the "=" suffix is kept)
SigUrlSafe(signature) ==
    LET sig == EncodeToString(StdAlphabet, signature)
    IN  ReplaceAll(ReplaceAll(sig, ChPlus, ChMinus), ChSlash, ChUnderscore)

BuildPolyHmacSignature(secret, timestamp, method, requestPath, body) ==
    LET message == HmacMessage(timestamp, method, requestPath, body)
        base64Secret == Base64Secret(secret)
        signature == HmacSha256(base64Secret, message)
    IN  SigUrlSafe(signature)

\* (mutant) the two tags are compared without their padding
VerifyHmacSignature_PaddingBlind(secret, timestamp, method, requestPath, body, signature) ==
    LET expectedSig == BuildPolyHmacSignature(secret, timestamp, method, requestPath, body)
    IN  HmacEqual(SelectSeq(expectedSig, LAMBDA c : c # ChEq),
                  SelectSeq(signature, LAMBDA c : c # ChEq))

VerifyHmacSignature(secret, timestamp, method, requestPath, body, signature) ==
    LET expectedSig == BuildPolyHmacSignature(secret, timestamp, method, requestPath, body)
    IN  HmacEqual(expectedSig, signature)

\* (mutant) the parts are joined with spaces
BuildMessage_Separated(timestamp, method, requestPath, body) ==
    LET message == ((FormatInt(timestamp) \o <<32>>) \o method) \o (<<32>> \o requestPath)
    IN  IF ~body.isNil THEN message \o body.val ELSE message

BuildMessage(timestamp, method, requestPath, body) ==
    LET message == FormatInt(timestamp) \o method \o requestPath
    IN  IF ~body.isNil THEN message \o body.val ELSE message


---------------------------------------------------------------------------
(* Inputs of the HMAC request signer *)

\* the longest request body drawn
MaxBodyLen == 2

\* the last byte position at which a component is rewritten
MaxPos == 16

\* the largest timestamp a rewritten decimal text may stand for
MaxTimestamp == 1999999999

\* "c29tZXNlY3JldA==" : URL-safe base64 of "somesecret"
SecretB64 == <<99, 50, 57, 116, 90, 88, 78, 108, 89, 51, 74, 108, 100, 65, 61, 61>>
\* "c29tZXNlY3JldA" : the same without padding
SecretUnpadded == <<99, 50, 57, 116, 90, 88, 78, 108, 89, 51, 74, 108, 100, 65>>
\* "YQA=" : URL-safe base64 of the two bytes 'a', 0
SecretZeroTail == <<89, 81, 65, 61>>
\* "a+/b" : standard-alphabet base64, not URL-safe
SecretStdAlphabet == <<97, 43, 47, 98>>
\* "s3cret!" : arbitrary text
SecretText == <<115, 51, 99, 114, 101, 116, 33>>

Secrets == {SecretB64, SecretUnpadded, SecretZeroTail, SecretStdAlphabet, SecretText, <<>>}

Timestamps == {0, 17, 1700000000}

\* "GET", "POST"
MethodGET == <<71, 69, 84>>
MethodPOST == <<80, 79, 83, 84>>
Methods == {MethodGET, MethodPOST}

\* "/orders", "/order"
Paths == {<<47, 111, 114, 100, 101, 114, 115>>, <<47, 111, 114, 100, 101, 114>>}

\* the text bodies are cut from: {"a":1}
BodyText == <<123, 34, 97, 34, 58, 49, 125>>
Bodies == {NilBody} \cup {Ptr(SubSeq(BodyText, 1, n)) : n \in 0..MaxBodyLen}

Requests ==
    [secret : Secrets, timestamp : Timestamps, method : Methods,
     requestPath : Paths, body : Bodies]

\* the bytes a single byte of a request is replaced by: 'B', '=', '9'
ReplacementBytes == {66, 61, 57}

\* The integer whose decimal text (as Sprintf prints it) is the given text.
RECURSIVE DigitsValue(_)
DigitsValue(ds) ==
    IF Len(ds) = 0 \/ Len(ds) > 10 \/ (Len(ds) = 10 /\ ds[1] # 49) THEN 0
    ELSE 10 * DigitsValue(SubSeq(ds, 1, Len(ds) - 1)) + (ds[Len(ds)] - 48)

ParseDecimal(text) ==
    LET neg == Len(text) > 0 /\ text[1] = ChMinus
        ds == IF neg THEN SubSeq(text, 2, Len(text)) ELSE text
        \* ten digits at most, the first of ten a '1': the value is computed
        \* in 32-bit integers
        ok == /\ Len(ds) \in 1..10
              /\ \A i \in 1..Len(ds) : ds[i] \in 48..57
              /\ (Len(ds) > 1 => ds[1] # 48)
              /\ (Len(ds) = 10 => ds[1] = 49)
              /\ ~(neg /\ ds = <<48>>)
              /\ DigitsValue(ds) <= MaxTimestamp
    IN  [ok |-> ok,
         val |-> IF ~ok THEN 0 ELSE IF neg THEN 0 - DigitsValue(ds) ELSE DigitsValue(ds)]

\* A rewriting of one request into a nearby one: "none", the replacement of
\* the byte at pos of one component by byte c, or another method.
Mutations ==
    {[field |-> "none", pos |-> 0, c |-> 0]}
    \cup [field : {"secret", "timestamp", "method", "requestPath", "body"},
          pos : 1..MaxPos, c : ReplacementBytes]
    \cup [field : {"otherMethod"}, pos : {0}, c : {0}]

FieldText(req, field) ==
    CASE field = "secret" -> req.secret
      [] field = "timestamp" -> FormatInt(req.timestamp)
      [] field = "method" -> req.method
      [] field = "requestPath" -> req.requestPath
      [] field = "body" -> req.body.val
      [] OTHER -> <<>>

Applicable(req, mu) ==
    CASE mu.field = "none" -> TRUE
      [] mu.field = "otherMethod" -> TRUE
      [] OTHER ->
            LET text == FieldText(req, mu.field)
            IN  /\ mu.pos <= Len(text)
                /\ text[mu.pos] # mu.c
                /\ (mu.field = "body" => ~req.body.isNil)
                /\ (mu.field = "timestamp" =>
                        ParseDecimal(ReplaceAt(text, mu.pos, mu.c)).ok)

Mutate(req, mu) ==
    LET text == ReplaceAt(FieldText(req, mu.field), mu.pos, mu.c)
    IN  CASE mu.field = "secret" -> [req EXCEPT !.secret = text]
          [] mu.field = "timestamp" -> [req EXCEPT !.timestamp = ParseDecimal(text).val]
          [] mu.field = "method" -> [req EXCEPT !.method = text]
          [] mu.field = "requestPath" -> [req EXCEPT !.requestPath = text]
          [] mu.field = "body" -> [req EXCEPT !.body = Ptr(text)]
          [] mu.field = "otherMethod" ->
                [req EXCEPT !.method = IF req.method = MethodGET THEN MethodPOST ELSE MethodGET]
          [] OTHER -> req

\* What a caller may present instead of the tag it was given.
Tampers == {"none", "stripPadding", "stdAlphabet", "firstByte", "empty"}

Tamper(tag, how) ==
    CASE how = "stripPadding" -> SelectSeq(tag, LAMBDA c : c # ChEq)
      [] how = "stdAlphabet" -> ReplaceAll(ReplaceAll(tag, ChMinus, ChPlus), ChUnderscore, ChSlash)
      [] how = "firstByte" -> ReplaceAt(tag, 1, IF tag[1] = 65 THEN 66 ELSE 65)
      [] how = "empty" -> <<>>
      [] OTHER -> tag

\* Another request under the same secret: one component changed, or a
\* character moved across the boundary of two components, or a nil body for
\* an empty one.
Variants == {"otherTimestamp", "otherMethod", "otherPath", "otherBody", "nilOrEmptyBody",
             "digitToMethod", "methodToPath", "pathToBody"}

HasVariant(req, kind) ==
    CASE kind = "nilOrEmptyBody" -> req.body.isNil \/ req.body.val = <<>>
      [] kind = "digitToMethod" -> req.timestamp >= 10
      [] kind = "pathToBody" -> ~req.body.isNil
      [] OTHER -> TRUE

Variant(req, kind) ==
    CASE kind = "otherTimestamp" ->
            [req EXCEPT !.timestamp = IF @ = 17 THEN 1700000000 ELSE 17]
      [] kind = "otherMethod" ->
            [req EXCEPT !.method = IF @ = MethodGET THEN MethodPOST ELSE MethodGET]
      [] kind = "otherPath" -> [req EXCEPT !.requestPath = Append(@, 47)]
      [] kind = "otherBody" ->
            [req EXCEPT !.body = Ptr(IF req.body.isNil THEN <<123>> ELSE Append(req.body.val, 125))]
      [] kind = "nilOrEmptyBody" ->
            [req EXCEPT !.body = IF @.isNil THEN Ptr(<<>>) ELSE NilBody]
      [] kind = "digitToMethod" ->
            [req EXCEPT !.timestamp = @ \div 10,
                        !.method = <<48 + (req.timestamp % 10)>> \o @]
      [] kind = "methodToPath" ->
            [req EXCEPT !.method = SubSeq(@, 1, Len(@) - 1),
                        !.requestPath = <<req.method[Len(req.method)]>> \o @]
      [] kind = "pathToBody" ->
            [req EXCEPT !.requestPath = SubSeq(@, 1, Len(@) - 1),
                        !.body = Ptr(<<req.requestPath[Len(req.requestPath)]>> \o @.val)]
      [] OTHER -> req

TagOf(req) ==
    BuildPolyHmacSignature(req.secret, req.timestamp, req.method, req.requestPath, req.body)

---------------------------------------------------------------------------
(* The calls into the HMAC request signer *)

NoRequest ==
    [secret |-> <<>>, timestamp |-> 0, method |-> <<>>, requestPath |-> <<>>, body |-> NilBody]

HmIdle ==
    [op |-> "none", req |-> NoRequest, base |-> NoRequest,
     mutation |-> [field |-> "none", pos |-> 0, c |-> 0], tamper |-> "none",
     message |-> <<>>, key |-> <<>>, tag |-> <<>>, signature |-> <<>>, ok |-> FALSE]

\* sig := BuildPolyHmacSignature(secret, timestamp, method, requestPath, body)
CallBuildPolyHmacSignature ==
    /\ hm.op = "none"
    /\ \E req \in Requests :
          hm' = [HmIdle EXCEPT
                    !.op = "BuildPolyHmacSignature", !.req = req, !.base = req,
                    !.message = HmacMessage(req.timestamp, req.method, req.requestPath, req.body),
                    !.key = Base64Secret(req.secret),
                    !.tag = TagOf(req)]
    /\ UNCHANGED sigVars

\* a second BuildPolyHmacSignature under the same secret, the caller
\* holding the request (base) and the tag (signature) of the first
CallBuildPolyHmacSignatureAgain ==
    /\ hm.op = "BuildPolyHmacSignature"
    /\ hm.signature = <<>>
    /\ \E kind \in Variants :
          /\ HasVariant(hm.req, kind)
          /\ LET req == Variant(hm.req, kind)
             IN  hm' = [hm EXCEPT
                          !.req = req, !.base = hm.req, !.signature = hm.tag,
                          !.mutation = [field |-> kind, pos |-> 0, c |-> 0],
                          !.message = HmacMessage(req.timestamp, req.method,
                                                  req.requestPath, req.body),
                          !.key = Base64Secret(req.secret),
                          !.tag = TagOf(req)]
    /\ UNCHANGED sigVars

\* ok := VerifyHmacSignature(..., signature), the signature being the tag of
\* a request (base) and the verified request that one or a rewriting of it
CallVerifyHmacSignature ==
    /\ hm.op = "none"
    /\ \E base \in Requests, mu \in Mutations, how \in Tampers :
          /\ mu.field = "none" \/ how = "none"
          /\ Applicable(base, mu)
          /\ LET req == Mutate(base, mu)
                 signature == Tamper(TagOf(base), how)
             IN  hm' = [HmIdle EXCEPT
                          !.op = "VerifyHmacSignature", !.req = req, !.base = base,
                          !.mutation = mu, !.tamper = how, !.signature = signature,
                          !.ok = VerifyHmacSignature(req.secret, req.timestamp, req.method,
                                                     req.requestPath, req.body, signature)]
    /\ UNCHANGED sigVars

\* msg := BuildMessage(timestamp, method, requestPath, body)
CallBuildMessage ==
    /\ hm.op = "none"
    /\ \E req \in Requests :
          hm' = [HmIdle EXCEPT
                    !.op = "BuildMessage", !.req = req, !.base = req,
                    !.message = BuildMessage(req.timestamp, req.method, req.requestPath, req.body)]
    /\ UNCHANGED sigVars

\* the caller has taken the result; the next call may be made
ReturnHmac ==
    /\ hm.op # "none"
    /\ hm' = HmIdle
    /\ UNCHANGED sigVars

NextHmac ==
    \/ CallBuildPolyHmacSignature
    \/ CallBuildPolyHmacSignatureAgain
    \/ CallVerifyHmacSignature
    \/ CallBuildMessage
    \/ ReturnHmac

---------------------------------------------------------------------------
(* Library stand-ins: hex text, keys, signing and recovery *)

\* error values: nil is the empty sequence, fmt.Errorf("...: %w", err) puts
\* its text in front of the wrapped error
Nil == <<>>
Errorf(text) == <<text>>
Wrap(text, err) == <<text>> \o err

\* "0123456789abcdef"
HexDigits == <<48, 49, 50, 51, 52, 53, 54, 55, 56, 57, 97, 98, 99, 100, 101, 102>>

\* hex.EncodeToString: two lowercase digits for every byte
HexEncode(b) ==
    [i \in 1..(2 * Len(b)) |->
        HexDigits[(IF i % 2 = 1 THEN b[(i + 1) \div 2] \div 16 ELSE b[i \div 2] % 16) + 1]]

\* the value of a hex digit of either case, -1 for any other byte
HexVal(c) ==
    IF c \in 48..57 THEN c - 48
    ELSE IF c \in 97..102 THEN c - 87
    ELSE IF c \in 65..70 THEN c - 55
    ELSE -1

\* hex.DecodeString of text known to be hex digits of even length
HexBytes(h) == [i \in 1..(Len(h) \div 2) |-> HexVal(h[2 * i - 1]) * 16 + HexVal(h[2 * i])]

\* hexutil.Encode
HexutilEncode(b) == Prefix0x \o HexEncode(b)

\* hexutil.Decode
HexutilDecode(input) ==
    IF Len(input) = 0 THEN [err |-> Errorf("empty hex string"), bytes |-> <<>>]
    ELSE IF ~(Len(input) >= 2 /\ input[1] = 48 /\ input[2] \in {120, 88})
    THEN [err |-> Errorf("hex string without 0x prefix"), bytes |-> <<>>]
    ELSE
        LET h == SubSeq(input, 3, Len(input))
        IN  IF \E i \in 1..Len(h) : HexVal(h[i]) < 0
            THEN [err |-> Errorf("invalid hex string"), bytes |-> <<>>]
            ELSE IF Len(h) % 2 = 1
            THEN [err |-> Errorf("hex string of odd length"), bytes |-> <<>>]
            ELSE [err |-> Nil, bytes |-> HexBytes(h)]

\* big.Int.FillBytes: the absolute value, big-endian, in width bytes
RECURSIVE BigEndian(_, _)
BigEndian(n, width) ==
    IF width = 0 THEN <<>> ELSE Append(BigEndian(n \div 256, width - 1), n % 256)

FillBytes(n, width) == BigEndian(IF n < 0 THEN 0 - n ELSE n, width)

AddressLength == 20
SignatureLength == 65

ZeroAddress == [i \in 1..AddressLength |-> 0]

\* the private scalars drawn: 1..NumKeys are valid, 0 is not a valid scalar
NumKeys == 3

\* the public key (X || Y, 64 bytes) of a private scalar
PublicKey(D) == [i \in 1..64 |-> (D * (2 * i + 1) + 7 * i) % 256]

\* *ecdsa.PrivateKey
PrivateKeyOf(D) == [D |-> D, PublicKey |-> PublicKey(D)]
PrivateKeys == {PrivateKeyOf(D) : D \in 0..NumKeys}

\* crypto.PubkeyToAddress: the last 20 bytes of the hash of the public key
PubkeyToAddress(pub) == SubSeq(Keccak256Hash(pub), HashLen - AddressLength + 1, HashLen)

\* (mutant) the digits are left in lower case
AddressHex_Lowercase(a) == Prefix0x \o HexEncode(a)

\* common.Address.Hex: "0x" and the 40 hex digits, a letter digit in upper
\* case where the matching nibble of keccak256(lowercase digits) is above 7
AddressHex(a) ==
    LET lower == HexEncode(a)
        hash == Keccak256Hash(lower)
        nibble(i) == IF i % 2 = 1 THEN hash[(i + 1) \div 2] \div 16 ELSE hash[i \div 2] % 16
    IN  Prefix0x \o [i \in 1..Len(lower) |->
                        IF lower[i] > 57 /\ nibble(i) > 7 THEN lower[i] - 32 ELSE lower[i]]

\* common.HexToAddress of a 0x-prefixed text of hex digits: the bytes, cut
\* or zero-padded on the left to 20
HexToAddress(s) ==
    LET h == IF Len(s) >= 2 /\ s[1] = 48 /\ s[2] \in {120, 88} THEN SubSeq(s, 3, Len(s)) ELSE s
        b == HexBytes(IF Len(h) % 2 = 1 THEN <<48>> \o h ELSE h)
    IN  IF Len(b) >= AddressLength
        THEN SubSeq(b, Len(b) - AddressLength + 1, Len(b))
        ELSE [i \in 1..(AddressLength - Len(b)) |-> 0] \o b

\* the (r, s) of the signature of a hash by a scalar, 64 bytes, and its
\* recovery id: for one hash, different scalars give different (r, s)
SigR(hash, D) == [i \in 1..32 |-> (3 * hash[i] + D * (2 * i + 1) + 11) % 256]
SigS(hash, D) == [i \in 1..32 |-> (hash[33 - i] + 5 * D + i) % 256]
RecId(hash, D) == (hash[1] + hash[32] + D) % 2

\* crypto.Sign: [R || S || V] with V 0 or 1; an error for a hash that is not
\* 32 bytes and for a scalar that is not valid
Sign(digestHash, prv) ==
    IF Len(digestHash) # HashLen
    THEN [err |-> Errorf("hash is required to be exactly 32 bytes"), sig |-> <<>>]
    ELSE IF prv.D \notin 1..NumKeys
    THEN [err |-> Errorf("invalid private key"), sig |-> <<>>]
    ELSE [err |-> Nil,
          sig |-> SigR(digestHash, prv.D) \o SigS(digestHash, prv.D)
                     \o <<RecId(digestHash, prv.D)>>]

\* crypto.SigToPub: the signature must be 65 bytes [R || S || V] with V a
\* recovery id (0 or 1; 2 and 3 name points that do not exist for these
\* signatures); any other V is refused.  For the signature a scalar made of
\* the hash, with its recovery id, the result is that scalar's public key;
\* for any other well-formed input it is the key of nobody in the model.
SigToPub(hash, sig) ==
    IF Len(sig) # SignatureLength
    THEN [err |-> Errorf("invalid signature length"), pub |-> <<>>]
    ELSE IF sig[SignatureLength] >= 4
    THEN [err |-> Errorf("invalid signature recovery id"), pub |-> <<>>]
    ELSE IF \/ sig[SignatureLength] >= 2
            \/ \A i \in 1..32 : sig[i] = 0
            \/ \A i \in 33..64 : sig[i] = 0
    THEN [err |-> Errorf("recovery failed"), pub |-> <<>>]
    ELSE
        LET rs == SubSeq(sig, 1, 64)
            signers == {D \in 1..NumKeys :
                            /\ SigR(hash, D) \o SigS(hash, D) = rs
                            /\ RecId(hash, D) = sig[SignatureLength]}
        IN  IF signers # {}
            THEN [err |-> Nil, pub |-> PublicKey(CHOOSE D \in signers : TRUE)]
            ELSE [err |-> Nil, pub |-> ToyHash(hash \o sig, 17) \o ToyHash(sig \o hash, 19)]

---------------------------------------------------------------------------
(* The EIP-712 signer *)

\* "This message attests that I control the given wallet"
MSG_TO_SIGN ==
    <<84, 104, 105, 115, 32, 109, 101, 115, 115, 97, 103, 101, 32, 97, 116,
      116, 101, 115, 116, 115, 32, 116, 104, 97, 116, 32, 73, 32, 99, 111,
      110, 116, 114, 111, 108, 32, 116, 104, 101, 32, 103, 105, 118, 101, 110,
      32, 119, 97, 108, 108, 101, 116>>

\* "EIP712Domain(string name,string version,uint256 chainId)"
DomainTypeString ==
    <<69, 73, 80, 55, 49, 50, 68, 111, 109, 97, 105, 110, 40, 115, 116, 114,
      105, 110, 103, 32, 110, 97, 109, 101, 44, 115, 116, 114, 105, 110, 103,
      32, 118, 101, 114, 115, 105, 111, 110, 44, 117, 105, 110, 116, 50, 53,
      54, 32, 99, 104, 97, 105, 110, 73, 100, 41>>

\* "ClobAuth(address address,string timestamp,uint256 nonce,string message)"
ClobAuthTypeString ==
    <<67, 108, 111, 98, 65, 117, 116, 104, 40, 97, 100, 100, 114, 101, 115,
      115, 32, 97, 100, 100, 114, 101, 115, 115, 44, 115, 116, 114, 105, 110,
      103, 32, 116, 105, 109, 101, 115, 116, 97, 109, 112, 44, 117, 105, 110,
      116, 50, 53, 54, 32, 110, 111, 110, 99, 101, 44, 115, 116, 114, 105,
      110, 103, 32, 109, 101, 115, 115, 97, 103, 101, 41>>

\* "ClobAuthDomain", "1"
ClobAuthDomainName == <<67, 108, 111, 98, 65, 117, 116, 104, 68, 111, 109, 97, 105, 110>>
ClobAuthDomainVersion == <<49>>

\* EIP712Domain{Name, Version, ChainID}; Salt and VerifyingContract empty
EIP712Domain(name, version, chainID) ==
    [Name |-> name, Version |-> version, ChainID |-> chainID,
     Salt |-> <<>>, VerifyingContract |-> <<>>]

\* the types of BuildClobEip712Signature: the fields of "ClobAuth"
ClobAuthTypes ==
    <<[Name |-> "address", Type |-> "address"],
      [Name |-> "timestamp", Type |-> "string"],
      [Name |-> "nonce", Type |-> "uint256"],
      [Name |-> "message", Type |-> "string"]>>

\* (mutant) a non-empty salt takes part in the separator
getDomainSeparator_WithSalt(domain) ==
    LET typeHash == Keccak256Hash(DomainTypeString)
        nameHash == Keccak256Hash(domain.Name)
        versionHash == Keccak256Hash(domain.Version)
        chainIdBytes == FillBytes(domain.ChainID, 32)
        data == ((typeHash \o nameHash) \o versionHash) \o chainIdBytes
    IN  Keccak256Hash(IF domain.Salt # <<>> THEN data \o Keccak256Hash(domain.Salt) ELSE data)

getDomainSeparator(domain) ==
    LET typeHash == Keccak256Hash(DomainTypeString)
        nameHash == Keccak256Hash(domain.Name)
        versionHash == Keccak256Hash(domain.Version)
        chainIdBytes == FillBytes(domain.ChainID, 32)
        data == ((typeHash \o nameHash) \o versionHash) \o chainIdBytes
    IN  Keccak256Hash(data)

getTypeHash(types) == Keccak256Hash(ClobAuthTypeString)

\* (mutant) the nonce slot is written before the timestamp slot
encodeClobAuthData_NonceFirst(data) ==
    LET address == HexToAddress(data.Address)
        addressBytes == [i \in 1..12 |-> 0] \o address
        timestampHash == Keccak256Hash(data.Timestamp)
        nonceBytes == FillBytes(data.Nonce, 32)
        messageHash == Keccak256Hash(data.Message)
    IN  ((addressBytes \o nonceBytes) \o timestampHash) \o messageHash

encodeClobAuthData(data) ==
    LET address == HexToAddress(data.Address)
        addressBytes == [i \in 1..12 |-> 0] \o address
        timestampHash == Keccak256Hash(data.Timestamp)
        nonceBytes == FillBytes(data.Nonce, 32)
        messageHash == Keccak256Hash(data.Message)
    IN  ((addressBytes \o timestampHash) \o nonceBytes) \o messageHash

\* the message of BuildClobEip712Signature
ClobAuthMessage(privateKey, timestamp, nonce) ==
    [Address |-> AddressHex(PubkeyToAddress(privateKey.PublicKey)),
     Timestamp |-> FormatInt(timestamp),
     Nonce |-> nonce,
     Message |-> MSG_TO_SIGN]

\* the hash BuildClobEip712Signature signs:
\* keccak256("\x19\x01" || domainSeparator || structHash)
ClobAuthHash(privateKey, chainID, timestamp, nonce) ==
    LET domain == EIP712Domain(ClobAuthDomainName, ClobAuthDomainVersion, chainID)
        message == ClobAuthMessage(privateKey, timestamp, nonce)
        domainSeparator == getDomainSeparator(domain)
        typeHash == getTypeHash(ClobAuthTypes)
        encodeData == encodeClobAuthData(message)
        structHash == Keccak256Hash(typeHash \o encodeData)
    IN  Keccak256Hash((<<25, 1>> \o domainSeparator) \o structHash)

\* (mutant) the signature is returned as crypto.Sign made it
BuildAdjustV_Skipped(signature) == signature

\* BuildClobEip712Signature: v is moved from 0/1 to 27/28
BuildAdjustV(signature) ==
    IF signature[SignatureLength] < 27
    THEN [signature EXCEPT ![SignatureLength] = (@ + 27) % 256]
    ELSE signature

BuildClobEip712Signature(privateKey, chainID, timestamp, nonce) ==
    LET hash == ClobAuthHash(privateKey, chainID, timestamp, nonce)
        signed0 == Sign(hash, privateKey)
    IN  IF signed0.err # Nil
        THEN [out |-> <<>>, err |-> Wrap("failed to sign hash", signed0.err)]
        ELSE [out |-> HexutilEncode(BuildAdjustV(signed0.sig)), err |-> Nil]

\* json.Marshal of a ClobAuthData
JsonMarshal(data) ==
    \* {"address":"
    <<123, 34, 97, 100, 100, 114, 101, 115, 115, 34, 58, 34>> \o data.Address
    \* ","timestamp":"
    \o <<34, 44, 34, 116, 105, 109, 101, 115, 116, 97, 109, 112, 34, 58, 34>> \o data.Timestamp
    \* ","nonce":
    \o <<34, 44, 34, 110, 111, 110, 99, 101, 34, 58>> \o FormatInt(data.Nonce)
    \* ,"message":"
    \o <<44, 34, 109, 101, 115, 115, 97, 103, 101, 34, 58, 34>> \o data.Message
    \* "}
    \o <<34, 125>>

getMessageHash(typedData) ==
    LET messageBytes == JsonMarshal(typedData.Message)
    IN  Keccak256Hash(messageBytes)

getTypedDataHash(typedData) ==
    LET domainSeparator == getDomainSeparator(typedData.Domain)
        messageHash == getMessageHash(typedData)
    IN  Keccak256Hash((<<25, 1>> \o domainSeparator) \o messageHash)

SignTypedData(privateKey, typedData) ==
    LET hash == getTypedDataHash(typedData)
        signed0 == Sign(hash, privateKey)
    IN  IF signed0.err # Nil
        THEN [out |-> <<>>, err |-> Wrap("failed to sign hash", signed0.err)]
        ELSE [out |-> HexutilEncode(signed0.sig), err |-> Nil]

\* RecoverAddress: v is moved unless it is 27 or 28 (8-bit addition)
RecoverAdjustV(sig) ==
    IF sig[SignatureLength] # 27 /\ sig[SignatureLength] # 28
    THEN [sig EXCEPT ![SignatureLength] = (@ + 27) % 256]
    ELSE sig

RecoverAddress(hash, signature) ==
    LET decoded == HexutilDecode(signature)
    IN  IF decoded.err # Nil
        THEN [addr |-> ZeroAddress, err |-> Wrap("failed to decode signature", decoded.err)]
        ELSE IF Len(decoded.bytes) # 65
        THEN [addr |-> ZeroAddress, err |-> Errorf("signature must be 65 bytes long")]
        ELSE
            LET sig == RecoverAdjustV(decoded.bytes)
                recovered == SigToPub(hash, sig)
            IN  IF recovered.err # Nil
                THEN [addr |-> ZeroAddress,
                      err |-> Wrap("failed to recover public key", recovered.err)]
                ELSE [addr |-> PubkeyToAddress(recovered.pub), err |-> Nil]

---------------------------------------------------------------------------
(* The wallet *)

NoWallet == [privateKey |-> PrivateKeyOf(0), address |-> ZeroAddress, made |-> FALSE]

\* (mutant) the address field is left at its zero value
NewWalletFromPrivateKey_AddressUnset(privateKey) ==
    [privateKey |-> privateKey, address |-> ZeroAddress, made |-> TRUE]

NewWalletFromPrivateKey(privateKey) ==
    [privateKey |-> privateKey,
     address |-> PubkeyToAddress(privateKey.PublicKey),
     made |-> TRUE]

GetAddress(w) == w.address

SignMessage(w, message) ==
    LET hash == Keccak256Hash(message)
        signed0 == Sign(hash, w.privateKey)
    IN  IF signed0.err # Nil
        THEN [out |-> <<>>, err |-> Wrap("failed to sign message", signed0.err)]
        ELSE [out |-> HexutilEncode(signed0.sig), err |-> Nil]

SignHash(w, hash) ==
    LET signed0 == Sign(hash, w.privateKey)
    IN  IF signed0.err # Nil
        THEN [out |-> <<>>, err |-> Wrap("failed to sign hash", signed0.err)]
        ELSE [out |-> HexutilEncode(signed0.sig), err |-> Nil]

\* RecoverAddressFromMessage: v is moved unless it is 27 or 28
MessageAdjustV(sig) ==
    IF sig[SignatureLength] # 27 /\ sig[SignatureLength] # 28
    THEN [sig EXCEPT ![SignatureLength] = (@ + 27) % 256]
    ELSE sig

RecoverAddressFromMessage(message, signature) ==
    LET decoded == HexutilDecode(signature)
    IN  IF decoded.err # Nil
        THEN [addr |-> ZeroAddress, err |-> Wrap("failed to decode signature", decoded.err)]
        ELSE IF Len(decoded.bytes) # 65
        THEN [addr |-> ZeroAddress, err |-> Errorf("signature must be 65 bytes long")]
        ELSE
            LET hash == Keccak256Hash(message)
                sig == MessageAdjustV(decoded.bytes)
                recovered == SigToPub(hash, sig)
            IN  IF recovered.err # Nil
                THEN [addr |-> ZeroAddress,
                      err |-> Wrap("failed to recover public key", recovered.err)]
                ELSE [addr |-> PubkeyToAddress(recovered.pub), err |-> Nil]

\* (mutant) a recovery error is reported as a plain false
VerifyMessageSignature_PlainFalse(message, signature, expectedAddress) ==
    LET recovered == RecoverAddressFromMessage(message, signature)
    IN  [ok |-> recovered.err = Nil /\ recovered.addr = expectedAddress, err |-> Nil]

VerifyMessageSignature(message, signature, expectedAddress) ==
    LET recovered == RecoverAddressFromMessage(message, signature)
    IN  IF recovered.err # Nil
        THEN [ok |-> FALSE, err |-> recovered.err]
        ELSE [ok |-> recovered.addr = expectedAddress, err |-> Nil]

\* w.address.Hex()
GetAddressHex(w) == AddressHex(w.address)

GetPrivateKey(w) == w.privateKey

\* hex.DecodeString: digits of either case, two for a byte; the first byte
\* that is no digit is reported, an odd length otherwise
HexDecodeString(s) ==
    IF \E i \in 1..Len(s) : HexVal(s[i]) < 0
    THEN [err |-> Errorf("encoding/hex: invalid byte"), invalidByte |-> TRUE, bytes |-> <<>>]
    ELSE IF Len(s) % 2 = 1
    THEN [err |-> Errorf("encoding/hex: odd length hex string"), invalidByte |-> FALSE,
          bytes |-> <<>>]
    ELSE [err |-> Nil, invalidByte |-> FALSE, bytes |-> HexBytes(s)]

\* the order of the curve group, 32 bytes big-endian
Secp256k1N ==
    <<255, 255, 255, 255, 255, 255, 255, 255, 255, 255, 255, 255, 255, 255, 255, 254,
      186, 174, 220, 230, 175, 72, 160, 59, 191, 210, 94, 140, 208, 54, 65, 65>>

\* big.Int.Cmp of two numbers given as big-endian bytes of one length
RECURSIVE CmpBytes(_, _)
CmpBytes(a, b) ==
    IF Len(a) = 0 THEN 0
    ELSE IF a[1] < b[1] THEN 0 - 1
    ELSE IF a[1] > b[1] THEN 1
    ELSE CmpBytes(Tail(a), Tail(b))

\* big.Int.SetBytes: the number the big-endian bytes stand for
RECURSIVE SetBytes(_)
SetBytes(d) ==
    IF Len(d) = 0 THEN 0 ELSE SetBytes(SubSeq(d, 1, Len(d) - 1)) * 256 + d[Len(d)]

\* crypto.ToECDSA: exactly 256 bits, below the group order, not zero
ToECDSA(d) ==
    IF 8 * Len(d) # 256
    THEN [err |-> Errorf("invalid length, need 256 bits"), key |-> PrivateKeyOf(0)]
    ELSE IF CmpBytes(d, Secp256k1N) >= 0
    THEN [err |-> Errorf("invalid private key, >=N"), key |-> PrivateKeyOf(0)]
    ELSE IF \A i \in 1..Len(d) : d[i] = 0
    THEN [err |-> Errorf("invalid private key, zero or negative"), key |-> PrivateKeyOf(0)]
    ELSE [err |-> Nil, key |-> PrivateKeyOf(SetBytes(d))]

\* crypto.HexToECDSA
HexToECDSA(hexkey) ==
    LET b == HexDecodeString(hexkey)
    IN  IF b.invalidByte
        THEN [err |-> Errorf("invalid hex character in private key"), key |-> PrivateKeyOf(0)]
        ELSE IF b.err # Nil
        THEN [err |-> Errorf("invalid hex data for private key"), key |-> PrivateKeyOf(0)]
        ELSE ToECDSA(b.bytes)

\* "Remove 0x prefix if present"
TrimPrefix0x(privateKeyHex) ==
    IF Len(privateKeyHex) >= 2 /\ SubSeq(privateKeyHex, 1, 2) = Prefix0x
    THEN SubSeq(privateKeyHex, 3, Len(privateKeyHex))
    ELSE privateKeyHex

\* (mutant) the prefix is not removed
NewWalletFromHex_PrefixKept(privateKeyHex) ==
    LET parsed == HexToECDSA(privateKeyHex)
    IN  IF parsed.err # Nil
        THEN [wallet |-> NoWallet, err |-> Wrap("failed to parse private key", parsed.err)]
        ELSE [wallet |-> NewWalletFromPrivateKey(parsed.key), err |-> Nil]

\* NewWalletFromHex: (nil, err) or (wallet, nil)
NewWalletFromHex(privateKeyHex) ==
    LET parsed == HexToECDSA(TrimPrefix0x(privateKeyHex))
    IN  IF parsed.err # Nil
        THEN [wallet |-> NoWallet, err |-> Wrap("failed to parse private key", parsed.err)]
        ELSE [wallet |-> NewWalletFromPrivateKey(parsed.key), err |-> Nil]

HexToPrivateKey(privateKeyHex) == HexToECDSA(TrimPrefix0x(privateKeyHex))

ValidatePrivateKey(privateKeyHex) == HexToPrivateKey(privateKeyHex).err

\* NewRandomWallet, generated being what crypto.GenerateKey returned
NewRandomWallet(generated) ==
    IF generated.err # Nil
    THEN [wallet |-> NoWallet, err |-> Wrap("failed to generate private key", generated.err)]
    ELSE [wallet |-> NewWalletFromPrivateKey(generated.key), err |-> Nil]

---------------------------------------------------------------------------
(* Inputs of the signer, the wallet and the recovery *)

\* the largest nonce drawn
MaxNonce == 1

ChainIDs == {137, 80002}
SignTimestamps == {0, 1700000000}
Nonces == 0..MaxNonce

\* "hi", "" : the messages a wallet signs
Messages == {<<104, 105>>, <<>>}

\* the hashes a wallet signs with SignHash
Hashes == {Keccak256Hash(<<1>>), Keccak256Hash(<<2>>)}

\* a hash nothing in the model was signed over
OtherHash == Keccak256Hash(<<111, 116, 104, 101, 114>>)

\* the addresses a signature is verified against: those of scalars 1 and 2
ExpectedAddresses == {PubkeyToAddress(PublicKey(1)), PubkeyToAddress(PublicKey(2))}

\* the values the 65th byte of a presented signature is set to
VBytes == {0, 1, 2, 27, 28, 29, 229, 230, 255}

\* What a caller may present instead of the signature text it was given:
\* the same (r, s) with another 65th byte, or a text that is not the
\* encoding of 65 bytes, or the encoding of other bytes.
SigTampers ==
    [kind : {"none", "truncate", "extend", "empty", "noPrefix", "oddLength",
             "notHex", "upperHex", "zeroR", "otherR"}, v : {0}]
    \cup [kind : {"v"}, v : VBytes]

\* the bytes of a signature text produced by this package
BytesOf(out) == HexutilDecode(out).bytes

TamperSig(out, how) ==
    LET b == BytesOf(out)
    IN  CASE how.kind = "v" -> HexutilEncode([b EXCEPT ![SignatureLength] = how.v])
          [] how.kind = "truncate" -> HexutilEncode(SubSeq(b, 1, Len(b) - 1))
          [] how.kind = "extend" -> HexutilEncode(Append(b, 0))
          [] how.kind = "empty" -> <<>>
          [] how.kind = "noPrefix" -> SubSeq(out, 3, Len(out))
          [] how.kind = "oddLength" -> SubSeq(out, 1, Len(out) - 1)
          [] how.kind = "notHex" -> [out EXCEPT ![3] = 103]
          [] how.kind = "upperHex" ->
                Prefix0x \o [i \in 1..(Len(out) - 2) |->
                                IF out[i + 2] > 57 THEN out[i + 2] - 32 ELSE out[i + 2]]
          [] how.kind = "zeroR" -> HexutilEncode([i \in 1..Len(b) |-> IF i <= 32 THEN 0 ELSE b[i]])
          [] how.kind = "otherR" -> HexutilEncode([b EXCEPT ![1] = (@ + 1) % 256])
          [] OTHER -> out

\* a tampering needs a signature text to start from
CanTamper(out, how) == how.kind = "none" \/ Len(BytesOf(out)) = SignatureLength

\* the 64 hex digits of a private scalar
KeyHex(D) == HexEncode(BigEndian(D, 32))

\* key texts: every scalar drawn, bare, with "0x", with "0X" and with "0x0x"
\* in front; the group order and the largest 256-bit number; a text with a
\* 'g', texts of 63, 62 and 66 digits, "0x" alone and the empty text
KeyTexts ==
    UNION {{KeyHex(D), Prefix0x \o KeyHex(D), <<48, 88>> \o KeyHex(D),
            Prefix0x \o Prefix0x \o KeyHex(D)} : D \in 0..NumKeys}
    \cup {HexEncode(Secp256k1N), Prefix0x \o HexEncode(Secp256k1N),
          HexEncode([i \in 1..32 |-> 255]),
          [KeyHex(1) EXCEPT ![5] = 103], Prefix0x \o [KeyHex(1) EXCEPT ![64] = 103],
          SubSeq(KeyHex(1), 2, 64), Prefix0x \o SubSeq(KeyHex(1), 2, 64),
          SubSeq(KeyHex(1), 3, 64), KeyHex(1) \o <<48, 48>>,
          Prefix0x, <<>>}

\* what crypto.GenerateKey may return: a valid key, or the error of the
\* entropy source
Generated ==
    {[err |-> Nil, key |-> PrivateKeyOf(D)] : D \in 1..NumKeys}
    \cup {[err |-> Errorf("unexpected EOF"), key |-> PrivateKeyOf(0)]}

---------------------------------------------------------------------------
(* The calls into the signer, the wallet and the recovery *)

SigIdle ==
    [op |-> "none", key |-> PrivateKeyOf(0), hash |-> <<>>, message |-> <<>>,
     chainID |-> 0, timestamp |-> 0, nonce |-> 0, out |-> <<>>, err |-> Nil]

RecIdle ==
    [op |-> "none", hash |-> <<>>, message |-> <<>>, signature |-> <<>>,
     how |-> [kind |-> "none", v |-> 0], expected |-> ZeroAddress,
     addr |-> ZeroAddress, ok |-> FALSE, err |-> Nil]

\* a helper call: a key text, an accessor of the wallet, a domain separator
NoDomain ==
    [Name |-> <<>>, Version |-> <<>>, ChainID |-> 0, Salt |-> <<>>, VerifyingContract |-> <<>>]

CallIdle ==
    [op |-> "none", text |-> <<>>, key |-> PrivateKeyOf(0), addr |-> ZeroAddress,
     out |-> <<>>, err |-> Nil, isNil |-> TRUE,
     domain |-> NoDomain, hash |-> <<>>, prevDomain |-> NoDomain, prevHash |-> <<>>]

Idle == signed.op = "none" /\ rec.op = "none" /\ call.op = "none"

\* w := NewWalletFromPrivateKey(privateKey)
CallNewWalletFromPrivateKey ==
    /\ Idle
    /\ \E privateKey \in PrivateKeys : wallet' = NewWalletFromPrivateKey(privateKey)
    /\ UNCHANGED <<hm, signed, rec, call, sdk, ws>>

\* sig, err := BuildClobEip712Signature(privateKey, chainID, timestamp, nonce)
CallBuildClobEip712Signature ==
    /\ Idle
    /\ \E privateKey \in PrivateKeys, chainID \in ChainIDs,
          timestamp \in SignTimestamps, nonce \in Nonces :
          LET r == BuildClobEip712Signature(privateKey, chainID, timestamp, nonce)
          IN  signed' = [SigIdle EXCEPT
                            !.op = "BuildClobEip712Signature", !.key = privateKey,
                            !.hash = ClobAuthHash(privateKey, chainID, timestamp, nonce),
                            !.chainID = chainID, !.timestamp = timestamp, !.nonce = nonce,
                            !.out = r.out, !.err = r.err]
    /\ UNCHANGED <<hm, wallet, rec, call, sdk, ws>>

\* sig, err := SignTypedData(privateKey, typedData), the typed data being
\* a ClobAuth message in the ClobAuthDomain
CallSignTypedData ==
    /\ Idle
    /\ \E privateKey \in PrivateKeys, chainID \in ChainIDs,
          timestamp \in SignTimestamps, nonce \in Nonces :
          LET typedData ==
                  [Types |-> ClobAuthTypes, PrimaryType |-> "ClobAuth",
                   Domain |-> EIP712Domain(ClobAuthDomainName, ClobAuthDomainVersion, chainID),
                   Message |-> ClobAuthMessage(privateKey, timestamp, nonce)]
              r == SignTypedData(privateKey, typedData)
          IN  signed' = [SigIdle EXCEPT
                            !.op = "SignTypedData", !.key = privateKey,
                            !.hash = getTypedDataHash(typedData),
                            !.chainID = chainID, !.timestamp = timestamp, !.nonce = nonce,
                            !.out = r.out, !.err = r.err]
    /\ UNCHANGED <<hm, wallet, rec, call, sdk, ws>>

\* sig, err := w.SignMessage(message)
CallSignMessage ==
    /\ Idle
    /\ wallet.made
    /\ \E message \in Messages :
          LET r == SignMessage(wallet, message)
          IN  signed' = [SigIdle EXCEPT
                            !.op = "SignMessage", !.key = wallet.privateKey,
                            !.hash = Keccak256Hash(message), !.message = message,
                            !.out = r.out, !.err = r.err]
    /\ UNCHANGED <<hm, wallet, rec, call, sdk, ws>>

\* sig, err := w.SignHash(hash)
CallSignHash ==
    /\ Idle
    /\ wallet.made
    /\ \E hash \in Hashes :
          LET r == SignHash(wallet, hash)
          IN  signed' = [SigIdle EXCEPT
                            !.op = "SignHash", !.key = wallet.privateKey,
                            !.hash = hash, !.out = r.out, !.err = r.err]
    /\ UNCHANGED <<hm, wallet, rec, call, sdk, ws>>

CanRecover == signed.op # "none" /\ rec.op = "none"

\* addr, err := RecoverAddress(hash, signature), for the text the last
\* signing call returned or a tampering of it
CallRecoverAddress ==
    /\ CanRecover
    /\ \E hash \in {signed.hash, OtherHash}, how \in SigTampers :
          /\ CanTamper(signed.out, how)
          /\ LET signature == TamperSig(signed.out, how)
                 r == RecoverAddress(hash, signature)
             IN  rec' = [RecIdle EXCEPT
                            !.op = "RecoverAddress", !.hash = hash,
                            !.signature = signature, !.how = how,
                            !.addr = r.addr, !.err = r.err]
    /\ UNCHANGED <<hm, wallet, signed, call, sdk, ws>>

\* addr, err := RecoverAddressFromMessage(message, signature)
CallRecoverAddressFromMessage ==
    /\ CanRecover
    /\ \E message \in Messages, how \in SigTampers :
          /\ CanTamper(signed.out, how)
          /\ LET signature == TamperSig(signed.out, how)
                 r == RecoverAddressFromMessage(message, signature)
             IN  rec' = [RecIdle EXCEPT
                            !.op = "RecoverAddressFromMessage",
                            !.hash = Keccak256Hash(message), !.message = message,
                            !.signature = signature, !.how = how,
                            !.addr = r.addr, !.err = r.err]
    /\ UNCHANGED <<hm, wallet, signed, call, sdk, ws>>

\* ok, err := VerifyMessageSignature(message, signature, expectedAddress)
CallVerifyMessageSignature ==
    /\ CanRecover
    /\ \E message \in Messages, how \in SigTampers, expectedAddress \in ExpectedAddresses :
          /\ CanTamper(signed.out, how)
          /\ LET signature == TamperSig(signed.out, how)
                 r == VerifyMessageSignature(message, signature, expectedAddress)
             IN  rec' = [RecIdle EXCEPT
                            !.op = "VerifyMessageSignature",
                            !.hash = Keccak256Hash(message), !.message = message,
                            !.signature = signature, !.how = how,
                            !.expected = expectedAddress,
                            !.ok = r.ok, !.err = r.err]
    /\ UNCHANGED <<hm, wallet, signed, call, sdk, ws>>

\* the caller has taken the results; the next signing call may be made
ReturnSig ==
    /\ signed.op # "none"
    /\ signed' = SigIdle
    /\ rec' = RecIdle
    /\ UNCHANGED <<hm, wallet, call, sdk, ws>>

\* w, err := NewWalletFromHex(privateKeyHex); the caller keeps w when it is
\* not nil
CallNewWalletFromHex ==
    /\ Idle
    /\ \E privateKeyHex \in KeyTexts :
          LET r == NewWalletFromHex(privateKeyHex)
          IN  /\ call' = [CallIdle EXCEPT
                            !.op = "NewWalletFromHex", !.text = privateKeyHex,
                            !.err = r.err, !.isNil = ~r.wallet.made,
                            !.key = r.wallet.privateKey, !.addr = r.wallet.address]
              /\ wallet' = IF r.wallet.made THEN r.wallet ELSE wallet
    /\ UNCHANGED <<hm, signed, rec, sdk, ws>>

\* err := ValidatePrivateKey(privateKeyHex)
CallValidatePrivateKey ==
    /\ Idle
    /\ \E privateKeyHex \in KeyTexts :
          call' = [CallIdle EXCEPT
                      !.op = "ValidatePrivateKey", !.text = privateKeyHex,
                      !.err = ValidatePrivateKey(privateKeyHex)]
    /\ UNCHANGED <<hm, wallet, signed, rec, sdk, ws>>

\* w, err := NewRandomWallet()
CallNewRandomWallet ==
    /\ Idle
    /\ \E generated \in Generated :
          LET r == NewRandomWallet(generated)
          IN  /\ call' = [CallIdle EXCEPT
                            !.op = "NewRandomWallet", !.err = r.err,
                            !.isNil = ~r.wallet.made,
                            !.key = r.wallet.privateKey, !.addr = r.wallet.address]
              /\ wallet' = IF r.wallet.made THEN r.wallet ELSE wallet
    /\ UNCHANGED <<hm, signed, rec, sdk, ws>>

\* a := w.GetAddress()
CallGetAddress ==
    /\ Idle
    /\ wallet.made
    /\ call' = [CallIdle EXCEPT !.op = "GetAddress", !.isNil = FALSE,
                                !.addr = GetAddress(wallet)]
    /\ UNCHANGED <<hm, wallet, signed, rec, sdk, ws>>

\* s := w.GetAddressHex()
CallGetAddressHex ==
    /\ Idle
    /\ wallet.made
    /\ call' = [CallIdle EXCEPT !.op = "GetAddressHex", !.isNil = FALSE,
                                !.out = GetAddressHex(wallet)]
    /\ UNCHANGED <<hm, wallet, signed, rec, sdk, ws>>

\* k := w.GetPrivateKey()
CallGetPrivateKey ==
    /\ Idle
    /\ wallet.made
    /\ call' = [CallIdle EXCEPT !.op = "GetPrivateKey", !.isNil = FALSE,
                                !.key = GetPrivateKey(wallet)]
    /\ UNCHANGED <<hm, wallet, signed, rec, sdk, ws>>

\* the caller has taken the result of the helper
ReturnCall ==
    /\ call.op # "none"
    /\ call' = CallIdle
    /\ UNCHANGED <<hm, wallet, signed, rec, sdk, ws>>

NextSig ==
    \/ CallNewWalletFromPrivateKey
    \/ CallNewWalletFromHex
    \/ CallNewRandomWallet
    \/ CallValidatePrivateKey
    \/ CallGetAddress
    \/ CallGetAddressHex
    \/ CallGetPrivateKey
    \/ ReturnCall
    \/ CallBuildClobEip712Signature
    \/ CallSignTypedData
    \/ CallSignMessage
    \/ CallSignHash
    \/ CallRecoverAddress
    \/ CallRecoverAddressFromMessage
    \/ CallVerifyMessageSignature
    \/ ReturnSig

---------------------------------------------------------------------------
(* Claims about the signer, the wallet and the recovery, under SpecSig *)

SignerAddress == PubkeyToAddress(signed.key.PublicKey)

\* the recovery id crypto.Sign gave the last signature
SignedRecId == RecId(signed.hash, signed.key.D)

\* The stand-ins for crypto.Sign and crypto.SigToPub do round-trip: what the
\* library signs, with the recovery id as the library returns it, recovers
\* to the signer's public key.
SignThenSigToPub ==
    (signed.op # "none" /\ signed.err = Nil) =>
        SigToPub(signed.hash, Sign(signed.hash, signed.key).sig)
            = [err |-> Nil, pub |-> signed.key.PublicKey]

\* C1: RecoverAddress, given the hash BuildClobEip712Signature signed and
\* the text it returned, returns the signer's address and no error.
C1_BuildThenRecover ==
    (/\ rec.op = "RecoverAddress"
     /\ signed.op = "BuildClobEip712Signature" /\ signed.err = Nil
     /\ rec.hash = signed.hash /\ rec.signature = signed.out)
        => (rec.err = Nil /\ rec.addr = SignerAddress)

\* C2: RecoverAddress and RecoverAddressFromMessage, given a hash and the
\* (r, s) a key made of it, return the key's address and no error both when
\* the 65th byte is the recovery id i and when it is i + 27.
C2_BothRecoveryBytesAccepted ==
    (/\ rec.op \in {"RecoverAddress", "RecoverAddressFromMessage"}
     /\ signed.err = Nil /\ rec.hash = signed.hash
     /\ rec.how.kind = "v" /\ rec.how.v \in {SignedRecId, SignedRecId + 27})
        => (rec.err = Nil /\ rec.addr = SignerAddress)

\* C3: the 65th byte of every signature a signing operation returns
\* (BuildClobEip712Signature, SignTypedData, SignMessage, SignHash) is 27
\* or 28.
C3_ReturnedSignaturesCanonical ==
    (signed.op # "none" /\ signed.err = Nil) =>
        BytesOf(signed.out)[SignatureLength] \in {27, 28}

IsLowerHex(c) == c \in 48..57 \/ c \in 97..102

\* C4: what BuildClobEip712Signature returns without an error is 132
\* characters: "0x" and 130 lowercase hex digits, the encoding of the 65
\* bytes r || s || v with v 27 or 28; with an error it returns "".
C4_BuildOutputFormat ==
    signed.op = "BuildClobEip712Signature" =>
        IF signed.err = Nil
        THEN /\ Len(signed.out) = 132
             /\ SubSeq(signed.out, 1, 2) = Prefix0x
             /\ \A i \in 3..Len(signed.out) : IsLowerHex(signed.out[i])
             /\ SubSeq(BytesOf(signed.out), 1, 64)
                    = SigR(signed.hash, signed.key.D) \o SigS(signed.hash, signed.key.D)
             /\ BytesOf(signed.out)[SignatureLength] = SignedRecId + 27
             /\ BytesOf(signed.out)[SignatureLength] \in {27, 28}
        ELSE signed.out = <<>>

\* C4 witness: BuildClobEip712Signature has returned a signature whose hex
\* text holds letters and whose 65th byte is 28.
C4_Witness ==
    /\ signed.op = "BuildClobEip712Signature" /\ signed.err = Nil
    /\ Len(signed.out) = 132
    /\ \E i \in 3..132 : signed.out[i] \in 97..102
    /\ BytesOf(signed.out)[SignatureLength] = 28

\* a signature text that does not decode to exactly 65 bytes
Malformed(signature) ==
    HexutilDecode(signature).err # Nil \/ Len(HexutilDecode(signature).bytes) # SignatureLength

\* C5: on a signature text that does not decode to exactly 65 bytes the
\* recovery operations return the zero address (VerifyMessageSignature:
\* false) together with an error: "failed to decode signature" for a text
\* that is not 0x-prefixed hex, "signature must be 65 bytes long" for any
\* other length.  RecoverAddress and RecoverAddressFromMessage never return
\* the zero address with a nil error, and what VerifyMessageSignature
\* returns is the error of RecoverAddressFromMessage itself.
C5_MalformedSignatureRejected ==
    LET decoded == HexutilDecode(rec.signature)
        shape == IF decoded.err # Nil
                 THEN rec.err # Nil /\ rec.err[1] = "failed to decode signature"
                 ELSE rec.err = <<"signature must be 65 bytes long">>
    IN  /\ rec.op \in {"RecoverAddress", "RecoverAddressFromMessage"} =>
              /\ Malformed(rec.signature) => (shape /\ rec.addr = ZeroAddress)
              /\ rec.addr = ZeroAddress => rec.err # Nil
        /\ rec.op = "VerifyMessageSignature" =>
              /\ Malformed(rec.signature) => (shape /\ ~rec.ok)
              /\ rec.err = RecoverAddressFromMessage(rec.message, rec.signature).err
              /\ rec.err # Nil => ~rec.ok

\* C5 witness: VerifyMessageSignature was given the first 64 bytes of a
\* signature and has returned false with the length error.
C5_Witness ==
    /\ rec.op = "VerifyMessageSignature"
    /\ rec.how.kind = "truncate"
    /\ HexutilDecode(rec.signature).err = Nil
    /\ Len(HexutilDecode(rec.signature).bytes) = 64
    /\ ~rec.ok
    /\ rec.err = <<"signature must be 65 bytes long">>

\* C6: VerifyMessageSignature, given a message, the text w.SignMessage
\* returned for it and an address, returns (true, nil) for the address of w
\* and (false, nil) for any other address.
C6_SignThenVerify ==
    (/\ rec.op = "VerifyMessageSignature"
     /\ signed.op = "SignMessage" /\ signed.err = Nil
     /\ rec.message = signed.message /\ rec.signature = signed.out)
        => (rec.err = Nil /\ (rec.ok <=> rec.expected = GetAddress(wallet)))

---------------------------------------------------------------------------
(* The calls of getDomainSeparator *)

\* "ClobAuthDomain" and "Exchange"; "1" and "2"
DomainNames == {ClobAuthDomainName, <<69, 120, 99, 104, 97, 110, 103, 101>>}
DomainVersions == {ClobAuthDomainVersion, <<50>>}

\* int64 chain ids: none, mainnets, a testnet, and a negative value
DomainChainIDs == {0, 1, 137, 0 - 137, 80002}

\* Salt: empty or "s"; VerifyingContract: empty or "0xab"
DomainSalts == {<<>>, <<115>>}
DomainContracts == {<<>>, <<48, 120, 97, 98>>}

Domains ==
    [Name : DomainNames, Version : DomainVersions, ChainID : DomainChainIDs,
     Salt : DomainSalts, VerifyingContract : DomainContracts]

\* separator, _ := getDomainSeparator(domain)
CallGetDomainSeparator ==
    /\ Idle
    /\ \E domain \in Domains :
          call' = [CallIdle EXCEPT
                      !.op = "getDomainSeparator", !.domain = domain,
                      !.hash = getDomainSeparator(domain)]
    /\ UNCHANGED <<hm, wallet, signed, rec, sdk, ws>>

\* a second call, the caller still holding the result of the first
CallGetDomainSeparatorAgain ==
    /\ call.op = "getDomainSeparator"
    /\ call.prevHash = <<>>
    /\ \E domain \in Domains :
          call' = [call EXCEPT
                      !.prevDomain = call.domain, !.prevHash = call.hash,
                      !.domain = domain, !.hash = getDomainSeparator(domain)]
    /\ UNCHANGED <<hm, wallet, signed, rec, sdk, ws>>

NextDomain ==
    \/ CallGetDomainSeparator
    \/ CallGetDomainSeparatorAgain
    \/ ReturnCall

---------------------------------------------------------------------------
(* The Data API client: one request (src/data/client.go) *)

\* a response body: nothing, a JSON array, a JSON object, or text that is
\* not JSON; id tells two bodies of one kind apart
EmptyBody == [kind |-> "empty", id |-> 0]

\* json.RawMessage / decoded value: nil, or the content of a body
NilData == [isNil |-> TRUE, kind |-> "empty", id |-> 0]
DataOf(body) == [isNil |-> FALSE, kind |-> body.kind, id |-> body.id]

\* the public query methods, their endpoints and what they decode into
QueryMethods ==
    {"GetCurrentPositions", "GetClosedPositions", "GetTrades", "GetUserActivity",
     "GetTopHolders", "GetTotalValue", "GetTotalMarketsTraded", "GetOpenInterest",
     "GetLiveVolume"}

Endpoint(method) ==
    CASE method = "GetCurrentPositions" -> "/positions"
      [] method = "GetClosedPositions" -> "/closed-positions"
      [] method = "GetTrades" -> "/trades"
      [] method = "GetUserActivity" -> "/activity"
      [] method = "GetTopHolders" -> "/holders"
      [] method = "GetTotalValue" -> "/value"
      [] method = "GetTotalMarketsTraded" -> "/traded"
      [] method = "GetOpenInterest" -> "/oi"
      [] method = "GetLiveVolume" -> "/live-volume"
      [] OTHER -> "/"

\* var result []T, or var result T for the two methods that return *T
ResultShape(method) ==
    IF method \in {"GetTotalMarketsTraded", "GetLiveVolume", "GetHealth"}
    THEN "object" ELSE "array"

\* a query argument: the nil interface, a nil pointer, or a pointer to a
\* struct of which some pointer fields are set
NilInterface == [isNil |-> TRUE, ptrNil |-> FALSE, fields |-> {}]
NilQuery == [isNil |-> FALSE, ptrNil |-> TRUE, fields |-> {}]
QueryOf(fields) == [isNil |-> FALSE, ptrNil |-> FALSE, fields |-> fields]

\* buildURL: the endpoint and, for a query that is not nil, a parameter for
\* every field that is set
buildURL(endpoint, query) ==
    IF query.isNil THEN [url |-> [endpoint |-> endpoint, params |-> {}], err |-> Nil]
    ELSE IF query.ptrNil THEN [url |-> [endpoint |-> endpoint, params |-> {}], err |-> Nil]
    ELSE [url |-> [endpoint |-> endpoint, params |-> query.fields], err |-> Nil]

NoResponse ==
    [isNil |-> TRUE, Status |-> 0, OK |-> FALSE, Data |-> NilData, ErrorData |-> NilData]

\* makeRequest, outcome being what httpClient.Do and io.ReadAll gave
makeRequest(method, endpoint, query, outcome) ==
    LET fullURL == buildURL(endpoint, query)
        apiResp == [isNil |-> FALSE, Status |-> outcome.status,
                    OK |-> outcome.status >= 200 /\ outcome.status < 300,
                    Data |-> NilData, ErrorData |-> NilData]
    IN  IF fullURL.err # Nil
        THEN [resp |-> NoResponse, err |-> Wrap("failed to build URL", fullURL.err)]
        ELSE IF outcome.doErr
        THEN [resp |-> NoResponse, err |-> Wrap("failed to make request", Errorf("timeout"))]
        ELSE IF outcome.readErr
        THEN [resp |-> NoResponse,
              err |-> Wrap("failed to read response body", Errorf("unexpected EOF"))]
        ELSE IF outcome.status = 204
        THEN [resp |-> apiResp, err |-> Nil]
        ELSE IF outcome.body.kind # "empty"
        THEN IF outcome.status >= 400
             THEN [resp |-> [apiResp EXCEPT !.ErrorData = DataOf(outcome.body)], err |-> Nil]
             ELSE [resp |-> [apiResp EXCEPT !.Data = DataOf(outcome.body)], err |-> Nil]
        ELSE [resp |-> apiResp, err |-> Nil]

\* extractResponseData (the status number of the error text is left out)
extractResponseData(resp, operation) ==
    IF ~resp.OK
    THEN [data |-> NilData, err |-> <<"[DataSDK]", operation, "failed: status">>]
    ELSE IF resp.Data.isNil
    THEN [data |-> NilData,
          err |-> <<"[DataSDK]", operation, "returned null data despite successful response">>]
    ELSE [data |-> resp.Data, err |-> Nil]

\* json.Unmarshal(data, &result): text that is not JSON, or JSON of the
\* other shape, is an error
JsonUnmarshal(data, shape) ==
    IF data.kind = shape
    THEN [value |-> data, err |-> Nil]
    ELSE [value |-> NilData, err |-> Errorf("json: cannot unmarshal")]

\* the unmarshal...Response helpers
unmarshalResponse(method, resp, operation) ==
    LET extracted == extractResponseData(resp, operation)
        decoded == JsonUnmarshal(extracted.data, ResultShape(method))
    IN  IF extracted.err # Nil
        THEN [result |-> NilData, err |-> extracted.err]
        ELSE IF decoded.err # Nil
        THEN [result |-> NilData, err |-> Wrap("failed to unmarshal response", decoded.err)]
        ELSE [result |-> decoded.value, err |-> Nil]

\* a public query method: a nil query is replaced by an empty one
QueryMethod(method, query, outcome) ==
    LET q == IF query.ptrNil THEN QueryOf({}) ELSE query
        made == makeRequest("GET", Endpoint(method), q, outcome)
        r == unmarshalResponse(method, made.resp, method)
    IN  IF made.err # Nil
        THEN [result |-> NilData, err |-> made.err, resp |-> made.resp, url |-> buildURL(Endpoint(method), q).url]
        ELSE [result |-> r.result, err |-> r.err, resp |-> made.resp, url |-> buildURL(Endpoint(method), q).url]

\* the zero DataHealthResponse
ZeroHealth == [isNil |-> FALSE, kind |-> "object", id |-> 0]

\* GetHealth
GetHealth(outcome) ==
    LET made == makeRequest("GET", "/", NilInterface, outcome)
        decoded == JsonUnmarshal(made.resp.Data, "object")
    IN  IF made.err # Nil
        THEN [result |-> NilData, err |-> made.err, resp |-> made.resp]
        ELSE IF ~made.resp.Data.isNil
        THEN IF decoded.err # Nil
             THEN [result |-> NilData,
                   err |-> Wrap("failed to unmarshal health response", decoded.err),
                   resp |-> made.resp]
             ELSE [result |-> decoded.value, err |-> Nil, resp |-> made.resp]
        ELSE [result |-> ZeroHealth, err |-> Nil, resp |-> made.resp]

---------------------------------------------------------------------------
(* The Data API client: the parallel helpers *)

\* make(chan ..., 1)
ChanCap == 1

\* what a goroutine of the helpers does after its fetch: the value on its
\* value channel, then the error on its error channel
GoroutineSends_ValueOnlyOnSuccess(val, err) ==
    IF err # Nil
    THEN <<[chan |-> "err", val |-> NilData, err |-> err]>>
    ELSE <<[chan |-> "val", val |-> val, err |-> Nil],
           [chan |-> "err", val |-> NilData, err |-> err]>>

GoroutineSends(val, err) ==
    <<[chan |-> "val", val |-> val, err |-> Nil],
      [chan |-> "err", val |-> NilData, err |-> err]>>

\* the method each goroutine calls
GoroutineMethods(op) ==
    IF op = "GetAllPositions"
    THEN <<"GetCurrentPositions", "GetClosedPositions">>
    ELSE <<"GetTotalValue", "GetTotalMarketsTraded", "GetCurrentPositions">>

\* the text put in front of the error of each fetch
FetchFailed(op) ==
    IF op = "GetAllPositions"
    THEN <<"failed to get current positions", "failed to get closed positions">>
    ELSE <<"failed to get total value", "failed to get markets traded",
           "failed to get current positions">>

NilSummary == [isNil |-> TRUE, parts |-> <<>>]

\* (mutant) the errors are looked at from the last fetch to the first
HelperReturn_LastErrorFirst(op, vals, errs) ==
    LET n == Len(GoroutineMethods(op))
        failed == {i \in 1..n : errs[i] # Nil}
        last == CHOOSE i \in failed : \A j \in failed : j <= i
    IN  IF failed # {}
        THEN [result |-> NilSummary, err |-> Wrap(FetchFailed(op)[last], errs[last])]
        ELSE [result |-> [isNil |-> FALSE, parts |-> SubSeq(vals, 1, n)], err |-> Nil]

\* the end of GetAllPositions and GetPortfolioSummary: the first error in
\* the order of the checks, or the struct of the received values
HelperReturn(op, vals, errs) ==
    LET n == Len(GoroutineMethods(op))
    IN  IF errs[1] # Nil
        THEN [result |-> NilSummary, err |-> Wrap(FetchFailed(op)[1], errs[1])]
        ELSE IF errs[2] # Nil
        THEN [result |-> NilSummary, err |-> Wrap(FetchFailed(op)[2], errs[2])]
        ELSE IF n = 3 /\ errs[3] # Nil
        THEN [result |-> NilSummary, err |-> Wrap(FetchFailed(op)[3], errs[3])]
        ELSE [result |-> [isNil |-> FALSE, parts |-> SubSeq(vals, 1, n)], err |-> Nil]

---------------------------------------------------------------------------
(* The calls into the Data API client *)

\* the number of different bodies of one kind drawn
MaxPayload == 2

Statuses == {200, 204, 299, 300, 399, 400, 404, 500}

ResponseBodies == {EmptyBody} \cup [kind : {"array", "object", "text"}, id : 1..MaxPayload]

\* what the transport may give: a failed Do, a failed read, or a status
\* with a body
TransportFailed == [doErr |-> TRUE, readErr |-> FALSE, status |-> 0, body |-> EmptyBody]
ReadFailed == [doErr |-> FALSE, readErr |-> TRUE, status |-> 200, body |-> EmptyBody]
Outcomes ==
    [doErr : {FALSE}, readErr : {FALSE}, status : Statuses, body : ResponseBodies]
    \cup {TransportFailed, ReadFailed}

\* the outcomes drawn for a fetch inside a helper: the expected body, a
\* server error, a failed transport
HelperOutcomes(method) ==
    {[doErr |-> FALSE, readErr |-> FALSE, status |-> 200,
      body |-> [kind |-> ResultShape(method), id |-> id]] : id \in 1..MaxPayload}
    \cup {[doErr |-> FALSE, readErr |-> FALSE, status |-> 500,
           body |-> [kind |-> "text", id |-> 1]],
          TransportFailed}

Queries == {NilQuery, QueryOf({}), QueryOf({"user"})}

Goroutines == 1..3

GoroutineOff == [pc |-> "off", todo |-> <<>>]

SdkIdle ==
    [op |-> "none", query |-> NilInterface, nilArg |-> FALSE, panicked |-> FALSE,
     outcome |-> TransportFailed, resp |-> NoResponse, result |-> NilData, err |-> Nil,
     n |-> 0, g |-> [i \in Goroutines |-> GoroutineOff],
     valChan |-> [i \in Goroutines |-> <<>>], errChan |-> [i \in Goroutines |-> <<>>],
     fetched |-> [i \in Goroutines |-> [result |-> NilData, err |-> Nil]],
     k |-> 0, vals |-> [i \in Goroutines |-> NilData], errs |-> [i \in Goroutines |-> Nil],
     returned |-> FALSE, summary |-> NilSummary]

SdkFree == sdk.op = "none"

\* result, err := d.<method>(query)
CallQueryMethod ==
    /\ SdkFree
    /\ \E method \in QueryMethods, query \in Queries, outcome \in Outcomes :
          LET r == QueryMethod(method, query, outcome)
          IN  sdk' = [SdkIdle EXCEPT
                        !.op = method, !.query = query, !.nilArg = query.ptrNil,
                        !.outcome = outcome, !.resp = r.resp,
                        !.result = r.result, !.err = r.err, !.returned = TRUE]
    /\ UNCHANGED <<authVars, ws>>

\* result, err := d.GetHealth()
CallGetHealth ==
    /\ SdkFree
    /\ \E outcome \in Outcomes :
          LET r == GetHealth(outcome)
          IN  sdk' = [SdkIdle EXCEPT
                        !.op = "GetHealth", !.outcome = outcome, !.resp = r.resp,
                        !.result = r.result, !.err = r.err, !.returned = TRUE]
    /\ UNCHANGED <<authVars, ws>>

\* the goroutines of a helper, started
Started(n) ==
    [i \in Goroutines |-> IF i <= n THEN [pc |-> "fetch", todo |-> <<>>] ELSE GoroutineOff]

\* d.GetAllPositions(user, options): with nil options the reading of
\* options.Limit is a nil pointer dereference; otherwise the channels are
\* made and the two goroutines started
CallGetAllPositions ==
    /\ SdkFree
    /\ \E optionsNil \in BOOLEAN :
          sdk' = IF optionsNil
                 THEN [SdkIdle EXCEPT !.op = "GetAllPositions", !.nilArg = TRUE,
                                      !.panicked = TRUE]
                 ELSE [SdkIdle EXCEPT !.op = "GetAllPositions", !.n = 2, !.g = Started(2)]
    /\ UNCHANGED <<authVars, ws>>

\* d.GetPortfolioSummary(user): the channels are made and the three
\* goroutines started
CallGetPortfolioSummary ==
    /\ SdkFree
    /\ sdk' = [SdkIdle EXCEPT !.op = "GetPortfolioSummary", !.n = 3, !.g = Started(3)]
    /\ UNCHANGED <<authVars, ws>>

\* goroutine i: its fetch returns
GoFetch(i) ==
    /\ sdk.g[i].pc = "fetch"
    /\ LET method == GoroutineMethods(sdk.op)[i]
       IN  \E outcome \in HelperOutcomes(method) :
              LET r == QueryMethod(method, QueryOf({"user"}), outcome)
              IN  sdk' = [sdk EXCEPT
                            !.g[i] = [pc |-> "send", todo |-> GoroutineSends(r.result, r.err)],
                            !.fetched[i] = [result |-> r.result, err |-> r.err]]
    /\ UNCHANGED <<authVars, ws>>

\* goroutine i: its next send, when the channel has room; after its last
\* send the goroutine ends
GoSend(i) ==
    /\ sdk.g[i].pc = "send"
    /\ IF sdk.g[i].todo = <<>>
       THEN sdk' = [sdk EXCEPT !.g[i].pc = "done"]
       ELSE LET s == Head(sdk.g[i].todo)
            IN  IF s.chan = "val"
                THEN /\ Len(sdk.valChan[i]) < ChanCap
                     /\ sdk' = [sdk EXCEPT !.valChan[i] = Append(@, s.val),
                                           !.g[i].todo = Tail(@)]
                ELSE /\ Len(sdk.errChan[i]) < ChanCap
                     /\ sdk' = [sdk EXCEPT !.errChan[i] = Append(@, s.err),
                                           !.g[i].todo = Tail(@)]
    /\ UNCHANGED <<authVars, ws>>

\* the caller: its next receive, the values first and then the errors, each
\* in the order of the goroutines
CallerReceive ==
    /\ sdk.op \in {"GetAllPositions", "GetPortfolioSummary"}
    /\ ~sdk.panicked
    /\ sdk.k < 2 * sdk.n
    /\ IF sdk.k < sdk.n
       THEN /\ sdk.valChan[sdk.k + 1] # <<>>
            /\ sdk' = [sdk EXCEPT !.vals[sdk.k + 1] = Head(sdk.valChan[sdk.k + 1]),
                                  !.valChan[sdk.k + 1] = Tail(@),
                                  !.k = @ + 1]
       ELSE /\ sdk.errChan[sdk.k - sdk.n + 1] # <<>>
            /\ sdk' = [sdk EXCEPT !.errs[sdk.k - sdk.n + 1] = Head(sdk.errChan[sdk.k - sdk.n + 1]),
                                  !.errChan[sdk.k - sdk.n + 1] = Tail(@),
                                  !.k = @ + 1]
    /\ UNCHANGED <<authVars, ws>>

\* the caller: the checks of the errors and the return
CallerReturn ==
    /\ sdk.op \in {"GetAllPositions", "GetPortfolioSummary"}
    /\ ~sdk.panicked /\ ~sdk.returned
    /\ sdk.k = 2 * sdk.n
    /\ LET r == HelperReturn(sdk.op, sdk.vals, sdk.errs)
       IN  sdk' = [sdk EXCEPT !.summary = r.result, !.err = r.err, !.returned = TRUE]
    /\ UNCHANGED <<authVars, ws>>

\* the result is taken (or the panic has ended the call) and every
\* goroutine has ended: the next call may be made
ReturnSdk ==
    /\ sdk.op # "none"
    /\ sdk.returned \/ sdk.panicked
    /\ \A i \in Goroutines : sdk.g[i].pc \in {"off", "done"}
    /\ sdk' = SdkIdle
    /\ UNCHANGED <<authVars, ws>>

NextData ==
    \/ CallQueryMethod
    \/ CallGetHealth
    \/ CallGetAllPositions
    \/ CallGetPortfolioSummary
    \/ \E i \in Goroutines : GoFetch(i)
    \/ \E i \in Goroutines : GoSend(i)
    \/ CallerReceive
    \/ CallerReturn
    \/ ReturnSdk

---------------------------------------------------------------------------
(* The market channel messages (src/types/websocket.go) *)

EventTypeBook == "book"
EventTypePriceChange == "price_change"
EventTypeTickSizeChange == "tick_size_change"
EventTypeLastTradePrice == "last_trade_price"

EventTypes ==
    {EventTypeBook, EventTypePriceChange, EventTypeTickSizeChange, EventTypeLastTradePrice}

\* the two sides, as the error text of Validate spells them
SideBuy == "BUY"
SideSell == "SELL"

\* a member of a JSON object: absent, null, a number, or a string
Absent == [kind |-> "absent", s |-> ""]
JsonNull == [kind |-> "null", s |-> ""]
JsonNumber == [kind |-> "number", s |-> ""]
Str(s) == [kind |-> "string", s |-> s]

\* the first error of a tuple of errors
FirstErr(errs) ==
    LET bad == {i \in 1..Len(errs) : errs[i] # Nil}
    IN  IF bad = {} THEN Nil ELSE errs[CHOOSE i \in bad : \A j \in bad : i <= j]

\* json decoding into a Go string field: an absent or null member leaves
\* the zero value, a string sets it, a number is a type error
UnmarshalString(v) ==
    IF v.kind = "string" THEN [val |-> v.s, err |-> Nil]
    ELSE IF v.kind \in {"absent", "null"} THEN [val |-> "", err |-> Nil]
    ELSE [val |-> "", err |-> Errorf("json: cannot unmarshal number into Go value of type string")]

\* type PriceChange struct (best_bid and best_ask, which nothing reads, are
\* left out)
ZeroPriceChange == [AssetID |-> "", Price |-> "", Size |-> "", Side |-> "", Hash |-> ""]

\* json decoding of one element of price_changes
DecodePriceChange(e) ==
    IF e.kind = "null" THEN [val |-> ZeroPriceChange, err |-> Nil]
    ELSE IF e.kind # "object"
    THEN [val |-> ZeroPriceChange,
          err |-> Errorf("json: cannot unmarshal number into Go value of type types.PriceChange")]
    ELSE LET a == UnmarshalString(e.asset_id)
             p == UnmarshalString(e.price)
             z == UnmarshalString(e.size)
             d == UnmarshalString(e.side)
             h == UnmarshalString(e.hash)
         IN  [val |-> [AssetID |-> a.val, Price |-> p.val, Size |-> z.val,
                       Side |-> d.val, Hash |-> h.val],
              err |-> FirstErr(<<a.err, p.err, z.err, d.err, h.err>>)]

\* json decoding of the member price_changes into []PriceChange
DecodePriceChanges(v) ==
    IF v.kind \in {"absent", "null"} THEN [val |-> <<>>, err |-> Nil]
    ELSE IF v.kind # "array"
    THEN [val |-> <<>>,
          err |-> Errorf("json: cannot unmarshal number into Go value of type []types.PriceChange")]
    ELSE [val |-> [i \in 1..Len(v.items) |-> DecodePriceChange(v.items[i]).val],
          err |-> FirstErr([i \in 1..Len(v.items) |-> DecodePriceChange(v.items[i]).err])]

\* the Go types a document is decoded into
MessageTypes ==
    {"BookMessage", "PriceChangeMessage", "TickSizeChangeMessage", "LastTradePriceMessage"}

\* the json members of each struct (bids and asks of BookMessage, which
\* Validate does not read, are left out)
StructFields(type) ==
    CASE type = "eventTypeWrapper" -> {"event_type"}
      [] type = "BookMessage" -> {"event_type", "asset_id", "market", "timestamp", "hash"}
      [] type = "PriceChangeMessage" -> {"event_type", "market", "price_changes", "timestamp"}
      [] type = "TickSizeChangeMessage" ->
            {"event_type", "asset_id", "market", "old_tick_size", "new_tick_size", "timestamp"}
      [] type = "LastTradePriceMessage" ->
            {"event_type", "asset_id", "market", "price", "side", "size", "fee_rate_bps",
             "timestamp"}
      [] OTHER -> {}

\* var msg T: the zero value of a struct, with the fields of every struct
ZeroMessage(type) ==
    [type |-> type, EventType |-> "", AssetID |-> "", Market |-> "", Timestamp |-> "",
     Hash |-> "", Price |-> "", Size |-> "", Side |-> "", OldTickSize |-> "",
     NewTickSize |-> "", FeeRateBps |-> "", PriceChanges |-> <<>>]

\* the nil MarketChannelMessage
NilMessage == ZeroMessage("nil")

\* json.Unmarshal(data, &msg), msg of the given type
Unmarshal(doc, type) ==
    IF doc.json = "malformed"
    THEN [val |-> ZeroMessage(type), err |-> Errorf("invalid character")]
    ELSE IF doc.json = "null"
    THEN [val |-> ZeroMessage(type), err |-> Nil]
    ELSE IF doc.json # "object"
    THEN [val |-> ZeroMessage(type),
          err |-> Errorf("json: cannot unmarshal array into Go value")]
    ELSE LET d(f) == IF f \in StructFields(type)
                     THEN UnmarshalString(doc[f])
                     ELSE [val |-> "", err |-> Nil]
             pcs == IF "price_changes" \in StructFields(type)
                    THEN DecodePriceChanges(doc.price_changes)
                    ELSE [val |-> <<>>, err |-> Nil]
         IN  [val |-> [type |-> type,
                       EventType |-> d("event_type").val,
                       AssetID |-> d("asset_id").val,
                       Market |-> d("market").val,
                       Timestamp |-> d("timestamp").val,
                       Hash |-> d("hash").val,
                       Price |-> d("price").val,
                       Size |-> d("size").val,
                       Side |-> d("side").val,
                       OldTickSize |-> d("old_tick_size").val,
                       NewTickSize |-> d("new_tick_size").val,
                       FeeRateBps |-> d("fee_rate_bps").val,
                       PriceChanges |-> pcs.val],
              err |-> FirstErr(<<d("event_type").err, d("asset_id").err, d("market").err,
                                 d("timestamp").err, d("hash").err, d("price").err,
                                 d("size").err, d("side").err, d("old_tick_size").err,
                                 d("new_tick_size").err, d("fee_rate_bps").err, pcs.err>>)]

\* func (m *BookMessage) Validate() error
BookMessage_Validate(m) ==
    IF m.EventType # EventTypeBook
    THEN <<"invalid event_type: expected 'book', got", m.EventType>>
    ELSE IF m.AssetID = "" THEN Errorf("asset_id is required")
    ELSE IF m.Market = "" THEN Errorf("market is required")
    ELSE IF m.Timestamp = "" THEN Errorf("timestamp is required")
    ELSE IF m.Hash = "" THEN Errorf("hash is required")
    ELSE Nil

\* func (pc *PriceChange) Validate() error
PriceChange_Validate(pc) ==
    IF pc.AssetID = "" THEN Errorf("asset_id is required")
    ELSE IF pc.Price = "" THEN Errorf("price is required")
    ELSE IF pc.Size = "" THEN Errorf("size is required")
    ELSE IF pc.Side # SideBuy /\ pc.Side # SideSell
    THEN <<"invalid side: must be 'BUY' or 'SELL', got", pc.Side>>
    ELSE IF pc.Hash = "" THEN Errorf("hash is required")
    ELSE Nil

\* (mutant) the entries of price_changes are not looked at
PriceChangeMessage_Validate_EntriesUnchecked(m) ==
    IF m.EventType # EventTypePriceChange
    THEN <<"invalid event_type: expected 'price_change', got", m.EventType>>
    ELSE IF m.Market = "" THEN Errorf("market is required")
    ELSE IF m.Timestamp = "" THEN Errorf("timestamp is required")
    ELSE IF Len(m.PriceChanges) = 0 THEN Errorf("price_changes array cannot be empty")
    ELSE Nil

\* func (m *PriceChangeMessage) Validate() error (the index in the error
\* text is left out)
PriceChangeMessage_Validate(m) ==
    IF m.EventType # EventTypePriceChange
    THEN <<"invalid event_type: expected 'price_change', got", m.EventType>>
    ELSE IF m.Market = "" THEN Errorf("market is required")
    ELSE IF m.Timestamp = "" THEN Errorf("timestamp is required")
    ELSE IF Len(m.PriceChanges) = 0 THEN Errorf("price_changes array cannot be empty")
    ELSE LET err == FirstErr([i \in 1..Len(m.PriceChanges) |->
                                 PriceChange_Validate(m.PriceChanges[i])])
         IN  IF err # Nil THEN Wrap("price_changes[i]", err) ELSE Nil

\* func (m *TickSizeChangeMessage) Validate() error
TickSizeChangeMessage_Validate(m) ==
    IF m.EventType # EventTypeTickSizeChange
    THEN <<"invalid event_type: expected 'tick_size_change', got", m.EventType>>
    ELSE IF m.AssetID = "" THEN Errorf("asset_id is required")
    ELSE IF m.Market = "" THEN Errorf("market is required")
    ELSE IF m.OldTickSize = "" THEN Errorf("old_tick_size is required")
    ELSE IF m.NewTickSize = "" THEN Errorf("new_tick_size is required")
    ELSE IF m.Timestamp = "" THEN Errorf("timestamp is required")
    ELSE Nil

\* func (m *LastTradePriceMessage) Validate() error
LastTradePriceMessage_Validate(m) ==
    IF m.EventType # EventTypeLastTradePrice
    THEN <<"invalid event_type: expected 'last_trade_price', got", m.EventType>>
    ELSE IF m.AssetID = "" THEN Errorf("asset_id is required")
    ELSE IF m.Market = "" THEN Errorf("market is required")
    ELSE IF m.Price = "" THEN Errorf("price is required")
    ELSE IF m.Side # SideBuy /\ m.Side # SideSell
    THEN <<"invalid side: must be 'BUY' or 'SELL', got", m.Side>>
    ELSE IF m.Size = "" THEN Errorf("size is required")
    ELSE IF m.Timestamp = "" THEN Errorf("timestamp is required")
    ELSE Nil

\* m.Validate(), m a non-nil MarketChannelMessage
Validate(m) ==
    CASE m.type = "BookMessage" -> BookMessage_Validate(m)
      [] m.type = "PriceChangeMessage" -> PriceChangeMessage_Validate(m)
      [] m.type = "TickSizeChangeMessage" -> TickSizeChangeMessage_Validate(m)
      [] m.type = "LastTradePriceMessage" -> LastTradePriceMessage_Validate(m)

\* m.GetEventType(), the same for the four types
GetEventType(m) == m.EventType

\* the type each case of the switch declares
MessageType(eventType) ==
    CASE eventType = EventTypeBook -> "BookMessage"
      [] eventType = EventTypePriceChange -> "PriceChangeMessage"
      [] eventType = EventTypeTickSizeChange -> "TickSizeChangeMessage"
      [] eventType = EventTypeLastTradePrice -> "LastTradePriceMessage"

\* ParseMarketChannelMessage(data)
ParseMarketChannelMessage(doc) ==
    LET w == Unmarshal(doc, "eventTypeWrapper")
    IN  IF w.err # Nil
        THEN [msg |-> NilMessage, err |-> Wrap("failed to parse event_type", w.err)]
        ELSE IF w.val.EventType \in EventTypes
        THEN LET u == Unmarshal(doc, MessageType(w.val.EventType))
             IN  IF u.err # Nil
                 THEN [msg |-> NilMessage,
                       err |-> <<"failed to parse", w.val.EventType, "message">> \o u.err]
                 ELSE IF Validate(u.val) # Nil
                 THEN [msg |-> NilMessage,
                       err |-> <<"invalid", w.val.EventType, "message">> \o Validate(u.val)]
                 ELSE [msg |-> u.val, err |-> Nil]
        ELSE [msg |-> NilMessage, err |-> <<"unknown event_type", w.val.EventType>>]

\* AsBookMessage .. AsLastTradePriceMessage: msg.(*T)
AsMessage(msg, type) ==
    IF msg.type = type THEN [m |-> msg, ok |-> TRUE] ELSE [m |-> NilMessage, ok |-> FALSE]

---------------------------------------------------------------------------
(* The calls of the parser *)

\* the longest price_changes array drawn
MaxChanges == 2

NoChanges == [kind |-> "absent", items |-> <<>>]

\* a JSON object with no member
EmptyObject ==
    [json |-> "object", event_type |-> Absent, asset_id |-> Absent, market |-> Absent,
     timestamp |-> Absent, hash |-> Absent, price |-> Absent, size |-> Absent,
     side |-> Absent, old_tick_size |-> Absent, new_tick_size |-> Absent,
     fee_rate_bps |-> Absent, price_changes |-> NoChanges]

FieldValues == {Absent, Str(""), Str("x"), JsonNumber}

SideValues == {Absent, Str(SideBuy), Str(SideSell), Str("buy"), JsonNumber}

\* the elements of price_changes: the two good ones, a good one with one
\* member spoilt, null and a number
GoodEntry(side) ==
    [kind |-> "object", asset_id |-> Str("x"), price |-> Str("x"), size |-> Str("x"),
     side |-> Str(side), hash |-> Str("x")]

Entries ==
    {GoodEntry(SideBuy), GoodEntry(SideSell)}
    \cup {[GoodEntry(SideBuy) EXCEPT ![f] = v] :
             f \in {"asset_id", "price", "size", "hash"}, v \in FieldValues \ {Str("x")}}
    \cup {[GoodEntry(SideBuy) EXCEPT !.side = v] :
             v \in SideValues \ {Str(SideBuy), Str(SideSell)}}
    \cup {[kind |-> k, asset_id |-> Absent, price |-> Absent, size |-> Absent,
           side |-> Absent, hash |-> Absent] : k \in {"null", "number"}}

ChangesValues ==
    {NoChanges, [kind |-> "null", items |-> <<>>], [kind |-> "number", items |-> <<>>]}
    \cup {[kind |-> "array", items |-> items] :
             items \in UNION {[1..n -> Entries] : n \in 0..MaxChanges}}

BookDocs ==
    {[EmptyObject EXCEPT !.event_type = Str(EventTypeBook), !.asset_id = a, !.market = k,
                         !.timestamp = t, !.hash = h] :
        a \in FieldValues, k \in FieldValues, t \in FieldValues, h \in FieldValues}

PriceChangeDocs ==
    {[EmptyObject EXCEPT !.event_type = Str(EventTypePriceChange), !.market = k,
                         !.timestamp = t, !.price_changes = c] :
        k \in FieldValues, t \in FieldValues, c \in ChangesValues}

TickSizeChangeDocs ==
    {[EmptyObject EXCEPT !.event_type = Str(EventTypeTickSizeChange), !.asset_id = a,
                         !.market = k, !.old_tick_size = o, !.new_tick_size = n,
                         !.timestamp = t] :
        a \in FieldValues, k \in FieldValues, o \in FieldValues, n \in FieldValues,
        t \in {Str(""), Str("x")}}

LastTradePriceDocs ==
    {[EmptyObject EXCEPT !.event_type = Str(EventTypeLastTradePrice), !.asset_id = a,
                         !.market = k, !.price = p, !.side = d, !.size = z,
                         !.fee_rate_bps = f, !.timestamp = t] :
        a \in FieldValues, k \in {Str(""), Str("x")}, p \in FieldValues, d \in SideValues,
        z \in {Absent, Str("x")}, f \in {Absent, JsonNumber}, t \in {Str(""), Str("x")}}

\* documents of no known event type: the member missing, null, a number,
\* empty or unknown (with the members of a good book message), and
\* documents that are no object
OtherDocs ==
    {[EmptyObject EXCEPT !.event_type = e, !.asset_id = Str("x"), !.market = Str("x"),
                         !.timestamp = Str("x"), !.hash = Str("x")] :
        e \in {Absent, JsonNull, JsonNumber, Str(""), Str("Book"), Str("trade")}}
    \cup {[EmptyObject EXCEPT !.json = j] : j \in {"malformed", "null", "array"}}

Docs == BookDocs \cup PriceChangeDocs \cup TickSizeChangeDocs \cup LastTradePriceDocs
        \cup OtherDocs

WsIdle ==
    [op |-> "none", doc |-> EmptyObject, msg |-> NilMessage, err |-> Nil,
     as |-> "none", ok |-> FALSE]

\* msg, err := ParseMarketChannelMessage(data)
CallParseMarketChannelMessage ==
    /\ ws.op = "none"
    /\ \E doc \in Docs :
          LET r == ParseMarketChannelMessage(doc)
          IN  ws' = [WsIdle EXCEPT !.op = "parse", !.doc = doc, !.msg = r.msg, !.err = r.err]
    /\ UNCHANGED <<authVars, sdk>>

\* _, ok := As<type>(msg) on the message just returned
CallAsMessage ==
    /\ ws.op = "parse"
    /\ \E type \in MessageTypes :
          ws' = [ws EXCEPT !.op = "as", !.as = type, !.ok = AsMessage(ws.msg, type).ok]
    /\ UNCHANGED <<authVars, sdk>>

\* the caller is done with the message
ReturnParse ==
    /\ ws.op # "none"
    /\ ws' = WsIdle
    /\ UNCHANGED <<authVars, sdk>>

NextParse ==
    \/ CallParseMarketChannelMessage
    \/ CallAsMessage
    \/ ReturnParse

---------------------------------------------------------------------------
(* Specifications *)

Init ==
    /\ hm = HmIdle
    /\ wallet = NoWallet
    /\ signed = SigIdle
    /\ rec = RecIdle
    /\ call = CallIdle
    /\ sdk = SdkIdle
    /\ ws = WsIdle

\* the HMAC request signer on its own
SpecHmac == Init /\ [][NextHmac]_vars

\* the EIP-712 signer, the wallet and the recovery on their own
SpecSig == Init /\ [][NextSig]_vars

\* the Data API client on its own
SpecData == Init /\ [][NextData]_vars

\* the same, every goroutine and the caller being scheduled as long as they
\* can take a step, and every fetch returning
SpecDataFair ==
    /\ SpecData
    /\ \A i \in Goroutines : WF_vars(GoFetch(i)) /\ WF_vars(GoSend(i))
    /\ WF_vars(CallerReceive)
    /\ WF_vars(CallerReturn)

\* the parser of the market channel on its own
SpecParse == Init /\ [][NextParse]_vars

\* the domain separator on its own
SpecDomain == Init /\ [][NextDomain]_vars

---------------------------------------------------------------------------
(* Claims about the HMAC request signer, checked under SpecHmac *)

HmArgsTag == TagOf(hm.req)

\* C7: VerifyHmacSignature accepts a candidate exactly when it is, byte for
\* byte, the tag recomputed from the arguments; in particular it accepts the
\* tag BuildPolyHmacSignature returns for the same arguments, and it rejects
\* a candidate whose padding was stripped or whose '-'/'_' were written
\* '+'/'/'.
C7_VerifyIsExactRecomputation ==
    hm.op = "VerifyHmacSignature" =>
        /\ hm.ok <=> (hm.signature = HmArgsTag)
        /\ (hm.mutation.field = "none" /\ hm.tamper = "none") => hm.ok
        /\ (hm.tamper = "stripPadding") => ~hm.ok

\* C7 witness: a tag holding '-' or '_' is presented in the standard
\* alphabet for the very request it was built for, and is rejected.
C7_Witness ==
    /\ hm.op = "VerifyHmacSignature"
    /\ hm.tamper = "stdAlphabet"
    /\ hm.req = hm.base
    /\ hm.signature # HmArgsTag
    /\ Len(hm.signature) = Len(HmArgsTag)
    /\ ~hm.ok

\* C8 as stated: the tag of a request is rejected for every request that
\* differs from it in one byte of the secret, of the timestamp's decimal
\* text, of the method, of the path or of the body, or in the method.
C8_AnySingleByteChangeRejected ==
    (hm.op = "VerifyHmacSignature" /\ hm.tamper = "none" /\ hm.mutation.field # "none")
        => ~hm.ok

\* C8 as amended: the same for one byte of the timestamp's text, the method,
\* the path or the body, and for the method GET/POST; for one byte of the
\* secret it holds whenever the two secrets give different HMAC keys (the
\* decoded or raw key bytes, zero-padded to the block), which a one-byte
\* change of a base64 secret need not do.
C8_SingleByteChangeRejected ==
    (hm.op = "VerifyHmacSignature" /\ hm.tamper = "none" /\ hm.mutation.field # "none")
        => \/ ~hm.ok
           \/ /\ hm.mutation.field = "secret"
              /\ KeyBlock(Base64Secret(hm.req.secret)) = KeyBlock(Base64Secret(hm.base.secret))

\* C8 witness: the tag built for GET is presented for the same request made
\* with POST, and is rejected.
C8_Witness ==
    /\ hm.op = "VerifyHmacSignature"
    /\ hm.mutation.field = "otherMethod"
    /\ hm.base.method = MethodGET /\ hm.req.method = MethodPOST
    /\ hm.base.secret = SecretB64 /\ hm.base.timestamp = 1700000000 /\ hm.base.body.isNil
    /\ hm.signature = TagOf(hm.base)
    /\ ~hm.ok

\* the message is decimal(timestamp) || method || requestPath || body, read
\* back from its end: the tail is the three texts and what precedes them is
\* the decimal text of the timestamp
IsCanonicalMessage(message, req) ==
    LET tail == req.method \o req.requestPath \o (IF req.body.isNil THEN <<>> ELSE req.body.val)
        n == Len(message) - Len(tail)
    IN  /\ n >= 1
        /\ SubSeq(message, n + 1, Len(message)) = tail
        /\ ParseDecimal(SubSeq(message, 1, n)) = [ok |-> TRUE, val |-> req.timestamp]

\* C9: the message BuildPolyHmacSignature authenticates is
\* decimal(timestamp) || method || requestPath || body without separators,
\* a nil body adding nothing, and BuildMessage returns that same message.
C9_CanonicalMessage ==
    /\ hm.op = "BuildPolyHmacSignature" => IsCanonicalMessage(hm.message, hm.req)
    /\ hm.op = "BuildMessage" =>
          /\ IsCanonicalMessage(hm.message, hm.req)
          /\ hm.message = HmacMessage(hm.req.timestamp, hm.req.method,
                                      hm.req.requestPath, hm.req.body)

\* C9 witness: BuildMessage has returned the message of a request with a
\* non-empty body.
C9_Witness ==
    /\ hm.op = "BuildMessage"
    /\ ~hm.req.body.isNil /\ Len(hm.req.body.val) > 0
    /\ hm.req.timestamp = 1700000000
    /\ Len(hm.message) = 10 + Len(hm.req.method) + Len(hm.req.requestPath) + Len(hm.req.body.val)

\* C10: the HMAC key is the URL-safe base64 decoding of the secret when the
\* secret decodes, and the bytes of the secret string otherwise; whatever
\* the secret, BuildPolyHmacSignature returns a non-empty tag.
C10_SecretDecodedOrRaw ==
    hm.op = "BuildPolyHmacSignature" =>
        LET decoded == DecodeString(URLAlphabet, hm.req.secret)
        IN  /\ decoded.ok => hm.key = decoded.bytes
            /\ ~decoded.ok => hm.key = hm.req.secret
            /\ Len(hm.tag) > 0
            /\ hm.tag = SigUrlSafe(HmacSha256(hm.key, hm.message))

\* C10 witness: a standard-alphabet secret, which does not decode, was used
\* as it is and a tag was returned.
C10_Witness ==
    /\ hm.op = "BuildPolyHmacSignature"
    /\ hm.req.secret = SecretStdAlphabet
    /\ ~DecodeString(URLAlphabet, hm.req.secret).ok
    /\ hm.key = SecretStdAlphabet
    /\ Len(hm.tag) > 0


\* C11: every tag BuildPolyHmacSignature returns is the padded standard
\* base64 text of the 32-byte MAC with '+' written '-' and '/' written '_':
\* 44 characters, the last one the only '=', and no '+' and no '/'.
C11_TagFormat ==
    hm.op = "BuildPolyHmacSignature" =>
        LET mac == HmacSha256(hm.key, hm.message)
        IN  /\ Len(mac) = HashLen
            /\ Len(hm.tag) = 44
            /\ hm.tag[44] = ChEq
            /\ \A i \in 1..43 : IndexOf(URLAlphabet, hm.tag[i]) >= 0
            /\ \A i \in 1..44 : hm.tag[i] # ChPlus /\ hm.tag[i] # ChSlash
            /\ ReplaceAll(ReplaceAll(hm.tag, ChMinus, ChPlus), ChUnderscore, ChSlash)
                  = EncodeToString(StdAlphabet, mac)

\* C11 witness: a returned tag in which both a '-' and a '_' stand, so both
\* rewritings have acted.
C11_Witness ==
    /\ hm.op = "BuildPolyHmacSignature"
    /\ Len(hm.tag) = 44
    /\ \E i \in 1..43 : hm.tag[i] = ChMinus
    /\ \E i \in 1..43 : hm.tag[i] = ChUnderscore

---------------------------------------------------------------------------
(* Claims about the domain separator, checked under SpecDomain *)

SecondSeparator == call.op = "getDomainSeparator" /\ call.prevHash # <<>>

SameNameVersionChain(d, e) ==
    d.Name = e.Name /\ d.Version = e.Version /\ d.ChainID = e.ChainID

\* C12: the separator is 32 bytes and depends on Name, Version and ChainID
\* only: a second call for a domain with the same three fields returns the
\* value of the first, whatever Salt and VerifyingContract are, and for a
\* chain id that is a uint256 the value is keccak256(keccak256(type string)
\* || keccak256(Name) || keccak256(Version) || the chain id big-endian in 32
\* bytes).
C12_SeparatorOfNameVersionChain ==
    call.op = "getDomainSeparator" =>
        /\ Len(call.hash) = 32
        /\ call.domain.ChainID >= 0 =>
              call.hash = Keccak256Hash(
                  Keccak256Hash(DomainTypeString) \o Keccak256Hash(call.domain.Name)
                  \o Keccak256Hash(call.domain.Version)
                  \o [i \in 1..28 |-> 0]
                  \o <<(call.domain.ChainID \div 16777216) % 256,
                       (call.domain.ChainID \div 65536) % 256,
                       (call.domain.ChainID \div 256) % 256,
                       call.domain.ChainID % 256>>)
        /\ (SecondSeparator /\ SameNameVersionChain(call.domain, call.prevDomain))
              => call.hash = call.prevHash

\* C12 witness: two calls for domains that differ in Salt and in
\* VerifyingContract and in nothing else have returned the same separator.
C12_Witness ==
    /\ SecondSeparator
    /\ SameNameVersionChain(call.domain, call.prevDomain)
    /\ call.domain.ChainID = 137
    /\ call.domain.Salt # call.prevDomain.Salt
    /\ call.domain.VerifyingContract # call.prevDomain.VerifyingContract
    /\ call.hash = call.prevHash

\* C20: for one name and one version, two distinct int64 chain ids, zero and
\* negative ones included, give different separators.
C20_DistinctChainsDistinctSeparators ==
    (/\ SecondSeparator
     /\ call.domain.Name = call.prevDomain.Name
     /\ call.domain.Version = call.prevDomain.Version
     /\ call.domain.ChainID # call.prevDomain.ChainID)
        => call.hash # call.prevHash

---------------------------------------------------------------------------
(* Claims about the digests, checked under SpecSig *)

\* the 32-byte big-endian slot of a number below 2^31
Slot32(n) ==
    [i \in 1..28 |-> 0]
    \o <<(n \div 16777216) % 256, (n \div 65536) % 256, (n \div 256) % 256, n % 256>>

\* the four slots after the type hash: the address left-padded with twelve
\* zero bytes, keccak256 of the decimal timestamp, the nonce, keccak256 of
\* the attestation text
ReferenceSlots(key, timestamp, nonce) ==
    <<[i \in 1..12 |-> 0] \o PubkeyToAddress(key.PublicKey),
      Keccak256Hash(Digits(timestamp)),
      Slot32(nonce),
      Keccak256Hash(MSG_TO_SIGN)>>

ReferenceStructHash(key, timestamp, nonce) ==
    LET slots == ReferenceSlots(key, timestamp, nonce)
    IN  Keccak256Hash(Keccak256Hash(ClobAuthTypeString)
                      \o slots[1] \o slots[2] \o slots[3] \o slots[4])

ReferenceSeparator(chainID) ==
    Keccak256Hash(Keccak256Hash(DomainTypeString) \o Keccak256Hash(ClobAuthDomainName)
                  \o Keccak256Hash(ClobAuthDomainVersion) \o Slot32(chainID))

ReferenceDigest(key, chainID, timestamp, nonce) ==
    Keccak256Hash(<<25, 1>> \o ReferenceSeparator(chainID)
                  \o ReferenceStructHash(key, timestamp, nonce))

\* C13: the digest BuildClobEip712Signature signs is keccak256(0x19 0x01 ||
\* domainSeparator("ClobAuthDomain", "1", chainID) || structHash), the
\* struct hash being keccak256 of the type hash and four 32-byte slots (128
\* bytes) in the order address, timestamp, nonce, message; the (r, s) it
\* returns are those of that digest.
C13_DigestIsReferenceConstruction ==
    signed.op = "BuildClobEip712Signature" =>
        LET ref == ReferenceDigest(signed.key, signed.chainID, signed.timestamp, signed.nonce)
            slots == ReferenceSlots(signed.key, signed.timestamp, signed.nonce)
            data == encodeClobAuthData(
                        ClobAuthMessage(signed.key, signed.timestamp, signed.nonce))
        IN  /\ signed.hash = ref
            /\ Len(data) = 128
            /\ \A k \in 1..4 : SubSeq(data, 32 * k - 31, 32 * k) = slots[k]
            /\ signed.err = Nil =>
                  SubSeq(BytesOf(signed.out), 1, 64)
                      = SigR(ref, signed.key.D) \o SigS(ref, signed.key.D)

\* C13 witness: a signature was returned for chain 137, timestamp
\* 1700000000 and nonce 1, by a key whose address text holds an upper-case
\* digit, and its (r, s) are those of the reference digest.
C13_Witness ==
    /\ signed.op = "BuildClobEip712Signature"
    /\ signed.err = Nil
    /\ signed.chainID = 137 /\ signed.timestamp = 1700000000 /\ signed.nonce = 1
    /\ \E i \in 3..42 :
          ClobAuthMessage(signed.key, signed.timestamp, signed.nonce).Address[i] \in 65..70
    /\ SubSeq(BytesOf(signed.out), 1, 32)
          = SigR(ReferenceDigest(signed.key, 137, 1700000000, 1), signed.key.D)

\* C14: the digest SignTypedData signs for a ClobAuth typed data (primary
\* type "ClobAuth", the ClobAuth schema, the domain ClobAuthDomain / 1 /
\* chainID) is the digest BuildClobEip712Signature signs for the same
\* address, timestamp, nonce and chain: its message hash is the struct hash.
C14_TypedDataDigestIsStructDigest ==
    signed.op = "SignTypedData" =>
        signed.hash = ClobAuthHash(signed.key, signed.chainID, signed.timestamp, signed.nonce)

---------------------------------------------------------------------------
(* Claims about the wallet helpers, checked under SpecSig *)

\* 64 hex digits that stand for a scalar in 1 .. N-1
IsKeyDigits(h) ==
    /\ Len(h) = 64
    /\ \A i \in 1..64 : HexVal(h[i]) >= 0
    /\ \E i \in 1..32 : HexBytes(h)[i] # 0
    /\ CmpBytes(HexBytes(h), Secp256k1N) < 0

\* the digits of a key text: the text itself, or what follows its "0x"
KeyDigits(t) ==
    IF Len(t) = 66 /\ t[1] = 48 /\ t[2] = 120 THEN SubSeq(t, 3, 66) ELSE t

\* C15: NewWalletFromHex succeeds exactly for the 64 hex digits of a valid
\* scalar with or without "0x" in front, and then the wallet holds that
\* scalar and its address, the same for both forms; for any other text it
\* returns a nil wallet and an error; ValidatePrivateKey returns an error
\* for exactly the texts for which NewWalletFromHex does.
C15_WalletFromHex ==
    /\ call.op = "NewWalletFromHex" =>
          IF IsKeyDigits(KeyDigits(call.text))
          THEN LET D == SetBytes(HexBytes(KeyDigits(call.text)))
               IN  /\ call.err = Nil /\ ~call.isNil
                   /\ call.key = PrivateKeyOf(D)
                   /\ call.addr = PubkeyToAddress(PublicKey(D))
                   /\ wallet.made /\ wallet.privateKey = call.key /\ wallet.address = call.addr
          ELSE call.isNil /\ call.err # Nil
    /\ call.op = "ValidatePrivateKey" =>
          (call.err = Nil <=> IsKeyDigits(KeyDigits(call.text)))

\* C15 witness: a wallet was made from a text with the "0x" prefix, for the
\* scalar 2.
C15_Witness ==
    /\ call.op = "NewWalletFromHex"
    /\ Len(call.text) = 66 /\ SubSeq(call.text, 1, 2) = Prefix0x
    /\ call.err = Nil /\ ~call.isNil
    /\ call.key.D = 2
    /\ wallet.privateKey.D = 2

\* the address text Wallet.GetAddressHex returned, or the one that
\* BuildClobEip712Signature put in the Address field of its message
AddressTexts ==
    (IF call.op = "GetAddressHex" THEN {call.out} ELSE {})
    \cup (IF signed.op = "BuildClobEip712Signature"
          THEN {ClobAuthMessage(signed.key, signed.timestamp, signed.nonce).Address}
          ELSE {})

WalletAddressOfKey ==
    /\ wallet.made => wallet.address = PubkeyToAddress(PublicKey(wallet.privateKey.D))
    /\ call.op = "GetAddress" => call.addr = PubkeyToAddress(PublicKey(wallet.privateKey.D))
    /\ call.op = "GetPrivateKey" => call.key = wallet.privateKey
    /\ call.op = "GetAddressHex" =>
          HexToAddress(call.out) = PubkeyToAddress(PublicKey(wallet.privateKey.D))
    /\ call.op \in {"NewWalletFromHex", "NewRandomWallet"} /\ ~call.isNil =>
          /\ wallet.privateKey = call.key
          /\ call.addr = PubkeyToAddress(PublicKey(call.key.D))
    /\ signed.op \in {"SignMessage", "SignHash"} => signed.key = wallet.privateKey

\* a step that is a call of GetAddress, GetAddressHex, GetPrivateKey,
\* SignMessage or SignHash leaves the wallet as it is
WalletOperationKeepsWallet ==
    (\/ call.op = "none" /\ call'.op \in {"GetAddress", "GetAddressHex", "GetPrivateKey"}
     \/ signed.op = "none" /\ signed'.op \in {"SignMessage", "SignHash"})
        => wallet' = wallet

\* C17: once a Wallet is constructed (NewWalletFromPrivateKey,
\* NewWalletFromHex, NewRandomWallet), GetAddress is always the address
\* derived from the scalar GetPrivateKey returns, through any sequence of
\* GetAddress, GetAddressHex, GetPrivateKey, SignMessage and SignHash, and
\* none of these operations changes the key or the address.
C17_WalletKeyAddressConsistent ==
    [](WalletAddressOfKey) /\ [][WalletOperationKeepsWallet]_vars

\* C17 witness: GetAddress of a wallet holding the scalar 3 has returned
\* the address of 3.
C17_Witness ==
    /\ call.op = "GetAddress"
    /\ wallet.made /\ wallet.privateKey.D = 3
    /\ call.addr = PubkeyToAddress(PublicKey(3))
    /\ call.addr # ZeroAddress

\* C18: RecoverAddress and RecoverAddressFromMessage return an error for
\* every 65-byte signature whose last byte is not 0, 1, 27 or 28; the 8-bit
\* addition of 27 never turns a large byte into an accepted one.
C18_OutOfRangeRecoveryByteRejected ==
    (/\ rec.op \in {"RecoverAddress", "RecoverAddressFromMessage"}
     /\ rec.how.kind = "v"
     /\ rec.how.v \notin {0, 1, 27, 28})
        => rec.err # Nil

---------------------------------------------------------------------------
(* Claims about two requests under one secret, checked under SpecHmac *)

SecondTag == hm.op = "BuildPolyHmacSignature" /\ hm.signature # <<>>

FirstMessage ==
    HmacMessage(hm.base.timestamp, hm.base.method, hm.base.requestPath, hm.base.body)

\* C19 as stated: two request tuples that differ in a component (a nil body
\* and a pointer to the empty string differ, and so do tuples with a
\* character moved across a boundary) have different messages and, under
\* one secret, different tags.
C19_DistinctRequestsDistinctMessages ==
    (SecondTag /\ hm.req # hm.base) =>
        (hm.message # FirstMessage /\ hm.tag # hm.signature)

\* the two requests differ in one component only, and not merely in the
\* body being nil or a pointer to the empty string
OneComponentDiffers ==
    /\ Cardinality({f \in {"timestamp", "method", "requestPath", "body"} :
                        hm.req[f] # hm.base[f]}) = 1
    /\ hm.req.body # hm.base.body => hm.req.body.val # hm.base.body.val

\* C19 as amended: the message is the plain concatenation, so two tuples
\* under one secret have the same tag exactly when their concatenations are
\* the same bytes; tuples that differ in one component only have different
\* messages and tags, unless the difference is a nil body against a pointer
\* to the empty string; a nil body and an empty one, and tuples with a
\* character moved across the timestamp/method, method/path or path/body
\* boundary, have the same message and tag.
C19_MessageIsConcatenation ==
    SecondTag =>
        /\ hm.tag = hm.signature <=> hm.message = FirstMessage
        /\ OneComponentDiffers => (hm.message # FirstMessage /\ hm.tag # hm.signature)
        /\ hm.mutation.field \in {"nilOrEmptyBody", "digitToMethod", "methodToPath",
                                   "pathToBody"}
              => (hm.req # hm.base /\ hm.message = FirstMessage /\ hm.tag = hm.signature)

\* C19 witness: the last digit of the timestamp was moved to the front of
\* the method, and the second tag is the first.
C19_Witness ==
    /\ SecondTag
    /\ hm.mutation.field = "digitToMethod"
    /\ hm.base.timestamp = 17 /\ hm.req.timestamp = 1
    /\ hm.req.method = <<55>> \o hm.base.method
    /\ hm.tag = hm.signature

---------------------------------------------------------------------------
(* C21: the parallel helpers end *)

HelperStarted == sdk.op \in {"GetAllPositions", "GetPortfolioSummary"} /\ ~sdk.panicked

GoroutinesEnded == \A i \in Goroutines : sdk.g[i].pc \in {"off", "done"}

\* the goroutines a started helper has: two for GetAllPositions, three for
\* GetPortfolioSummary
GoroutineCount ==
    HelperStarted =>
        /\ sdk.n = (IF sdk.op = "GetAllPositions" THEN 2 ELSE 3)
        /\ \A i \in Goroutines : (sdk.g[i].pc # "off") <=> (i <= sdk.n)

\* no channel ever holds more than its buffer
ChannelsWithinBuffer ==
    \A i \in Goroutines : Len(sdk.valChan[i]) <= ChanCap /\ Len(sdk.errChan[i]) <= ChanCap

\* C21: GetAllPositions starts two goroutines and GetPortfolioSummary
\* three; whatever the fetches return, every started helper call returns to
\* its caller and every one of its goroutines ends (no deadlock, no
\* goroutine left blocked on a send), the values and errors being received
\* in a fixed order from channels of buffer one.
C21_HelpersEnd ==
    /\ [](GoroutineCount /\ ChannelsWithinBuffer)
    /\ (HelperStarted ~> (HelperStarted /\ sdk.returned /\ GoroutinesEnded))

\* a portfolio summary whose three fetches all failed has returned and its
\* three goroutines have ended
C21_Witness ==
    /\ sdk.op = "GetPortfolioSummary"
    /\ sdk.returned
    /\ \A i \in 1..3 : sdk.g[i].pc = "done" /\ sdk.errs[i] # Nil

---------------------------------------------------------------------------
(* C22: the result of the parallel helpers *)

HelperReturned == HelperStarted /\ sdk.returned

\* the fetches of the call that failed
FailedFetches == {i \in 1..sdk.n : sdk.fetched[i].err # Nil}

\* the first of them in the order of the goroutines
FirstFailed == CHOOSE i \in FailedFetches : \A j \in FailedFetches : i <= j

\* C22: GetAllPositions (GetPortfolioSummary likewise) returns a non-nil
\* result holding exactly what its fetches returned, with a nil error, if
\* and only if every fetch succeeded; otherwise it returns a nil result and
\* a non-nil error, never a partial result, and the error reported is that
\* of the first failed fetch in the fixed order (current before closed;
\* total value, markets traded, positions), in whatever order the
\* goroutines finished.
C22_AllOrNothing ==
    HelperReturned =>
        /\ (FailedFetches = {}) <=> (~sdk.summary.isNil /\ sdk.err = Nil)
        /\ (FailedFetches = {}) =>
              /\ Len(sdk.summary.parts) = sdk.n
              /\ \A i \in 1..sdk.n : sdk.summary.parts[i] = sdk.fetched[i].result
        /\ (FailedFetches # {}) =>
              /\ sdk.summary = NilSummary
              /\ sdk.err # Nil
              /\ sdk.err = Wrap(FetchFailed(sdk.op)[FirstFailed], sdk.fetched[FirstFailed].err)

\* GetAllPositions has returned after both fetches failed, with different
\* errors
C22_Witness ==
    /\ sdk.op = "GetAllPositions"
    /\ sdk.returned
    /\ FailedFetches = {1, 2}
    /\ sdk.fetched[1].err # sdk.fetched[2].err
    /\ sdk.summary.isNil

---------------------------------------------------------------------------
(* C23: calls with an absent argument *)

\* C23: no public operation of the client crashes on an absent argument:
\* each of the nine query methods called with a nil query, and
\* GetAllPositions called with nil options, proceeds as with an empty
\* query or options value and returns a result or an error, never a
\* nil-pointer panic.  (Violated by GetAllPositions, which reads
\* options.Limit before anything else.)
C23_NilArgumentNeverPanics ==
    sdk.nilArg =>
        /\ ~sdk.panicked
        /\ sdk.op \in QueryMethods =>
              /\ sdk.returned
              /\ LET r == QueryMethod(sdk.op, QueryOf({}), sdk.outcome)
                 IN  sdk.result = r.result /\ sdk.err = r.err

\* the part of C23 that holds: the nine query methods take a nil query as
\* an empty one
C23_NilQueryAsEmpty ==
    (sdk.nilArg /\ sdk.op \in QueryMethods) =>
        /\ ~sdk.panicked /\ sdk.returned
        /\ LET r == QueryMethod(sdk.op, QueryOf({}), sdk.outcome)
           IN  sdk.result = r.result /\ sdk.err = r.err

---------------------------------------------------------------------------
(* C24: HTTP failure and success *)

\* a call of one of the ten fetch operations that got a response
GotResponse ==
    /\ sdk.op \in QueryMethods \cup {"GetHealth"}
    /\ ~sdk.resp.isNil

StatusOK(status) == 200 <= status /\ status <= 299

\* the fields of the APIResponse: OK exactly for 200..299, ErrorData only
\* from 400 on, Data only below 400
ResponseFields ==
    GotResponse =>
        /\ sdk.resp.Status = sdk.outcome.status
        /\ sdk.resp.OK <=> StatusOK(sdk.resp.Status)
        /\ ~sdk.resp.ErrorData.isNil => sdk.resp.Status >= 400
        /\ ~sdk.resp.Data.isNil => sdk.resp.Status < 400

\* C24: HTTP failure is never reported as success: APIResponse.OK is true
\* exactly when the status is in 200..299, ErrorData is set only for a
\* status of 400 or more and Data only for a status below 400, and every
\* public fetch operation, GetHealth included, returns a non-nil error
\* whenever the status of the response is outside 200..299.  (Violated by
\* GetHealth, which never looks at the status.)
C24_FailureNeverSuccess ==
    /\ ResponseFields
    /\ (GotResponse /\ ~StatusOK(sdk.resp.Status)) => sdk.err # Nil

\* the part of C24 that holds: the fields of the response, and the nine
\* query methods returning a nil result and an error for a status outside
\* 200..299
C24_QueryMethodsReportFailure ==
    /\ ResponseFields
    /\ (GotResponse /\ sdk.op \in QueryMethods /\ ~StatusOK(sdk.resp.Status)) =>
          sdk.err # Nil /\ sdk.result.isNil

---------------------------------------------------------------------------
(* C25: the parser returns validated messages of the matching kind *)

Parsed == ws.op \in {"parse", "as"}

\* the event_type of the input is one of the four known ones
KnownEventType ==
    /\ ws.doc.json = "object"
    /\ ws.doc.event_type.kind = "string"
    /\ ws.doc.event_type.s \in EventTypes

\* the concrete type of each kind of message
KindType ==
    [book |-> "BookMessage", price_change |-> "PriceChangeMessage",
     tick_size_change |-> "TickSizeChangeMessage",
     last_trade_price |-> "LastTradePriceMessage"]

\* the input decodes into the type of its event type and that value fails
\* its validation
ValidationFailed ==
    /\ KnownEventType
    /\ LET u == Unmarshal(ws.doc, KindType[ws.doc.event_type.s])
       IN  u.err = Nil /\ Validate(u.val) # Nil

\* C25: whenever ParseMarketChannelMessage returns a nil error, the message
\* m it returns satisfies m.Validate() == nil, m.GetEventType() is the
\* event_type of the input, and the concrete type of m is the one of that
\* event type (book, price_change, tick_size_change, last_trade_price); a
\* price_change message has a non-empty price_changes list of which every
\* entry passes PriceChange.Validate; for an unknown or missing event_type,
\* and for any failed validation, it returns a nil message and a non-nil
\* error.
C25_OnlyValidatedMessages ==
    Parsed =>
        /\ ws.err = Nil =>
              /\ ws.msg # NilMessage /\ ws.msg.type \in MessageTypes
              /\ Validate(ws.msg) = Nil
              /\ KnownEventType
              /\ GetEventType(ws.msg) = ws.doc.event_type.s
              /\ ws.msg.type = KindType[ws.doc.event_type.s]
              /\ ws.msg.type = "PriceChangeMessage" =>
                    /\ Len(ws.msg.PriceChanges) > 0
                    /\ \A i \in 1..Len(ws.msg.PriceChanges) :
                          PriceChange_Validate(ws.msg.PriceChanges[i]) = Nil
              /\ ws.op = "as" => (ws.ok <=> ws.as = KindType[ws.doc.event_type.s])
        /\ ws.err # Nil => ws.msg = NilMessage /\ (ws.op = "as" => ~ws.ok)
        /\ (~KnownEventType \/ ValidationFailed) => ws.msg = NilMessage /\ ws.err # Nil

\* a price_change message of two entries has been returned
C25_Witness ==
    /\ ws.op = "parse"
    /\ ws.err = Nil
    /\ ws.msg.type = "PriceChangeMessage"
    /\ Len(ws.msg.PriceChanges) = 2
    /\ ws.msg.PriceChanges[1].Side # ws.msg.PriceChanges[2].Side

===========================================================================
